---- MODULE Spec2Model ----
(***************************************************************************)
(* Model of satellite: the ResourceCache (internal/cache/cache.go), the    *)
(* key extraction (internal/k8s/utils.go), the build loop of main          *)
(* (cmd/satellite/main.go) and EmitGraph (internal/emitter).               *)
(*                                                                         *)
(* Producers are the informer goroutines calling Upsert/Delete; the        *)
(* orchestrator is the build loop of main.  Every call is split at the     *)
(* points where another goroutine can interleave: lock acquisition, the    *)
(* critical section, the signal send after the unlock.                     *)
(***************************************************************************)
EXTENDS Integers, Sequences, FiniteSets, TLC

\* ------------------------------------------------------------------ bounds
\* number of Upsert/Delete calls the producers make in one run
MaxOps == 3
\* number of clock seconds that pass in one run
MaxClock == 1
\* number of Upsert/Delete calls in one run of the fair specification
MaxLiveOps == 2
\* number of Upsert/Delete calls in one run of the specification that records
\* the calls
MaxCalls == 2

\* ------------------------------------------------------ program constants
\* capacity of changedCh: make(chan struct{}, 1)
ChanCap == 1

\* ------------------------------------------------------------ the objects
Producers == {"p1", "p2"}

None == "none"
NoObj == [type |-> "nil"]
\* a payload which is no runtime.Object (Delete takes interface{})
NotAnObject == [type |-> "string"]

\* runtime.Object values: Go type, TypeMeta kind, ObjectMeta namespace and
\* name, and ver standing for the rest of the object's content
PodA1 == [type |-> "Pod", gvk |-> "", ns |-> "default", name |-> "a", ver |-> 1]
PodA2 == [type |-> "Pod", gvk |-> "Pod", ns |-> "default", name |-> "a", ver |-> 2]
NodeN == [type |-> "Node", gvk |-> "", ns |-> "", name |-> "n", ver |-> 1]
\* a runtime.Object of a type the type switches do not know, no kind set
Unknown == [type |-> "Event", gvk |-> "", ns |-> "default", name |-> "a", ver |-> 1]

Objects == {PodA1, PodA2, NodeN, Unknown}

KnownTypes == {"Pod", "ReplicaSet", "Deployment", "Node", "Service", "ConfigMap"}

\* GetObjectMeta: the ObjectMeta of a known type, the empty one otherwise
GetObjectMeta(obj) ==
    IF obj.type \in KnownTypes
    THEN [ns |-> obj.ns, name |-> obj.name]
    ELSE [ns |-> "", name |-> ""]

getKindFromType(obj) ==
    IF obj.type \in KnownTypes THEN obj.type ELSE ""

\* GetKey: <<key, ok>>
NoKey == [kind |-> "", ns |-> "", name |-> ""]

GetKey(obj) ==
    LET meta == GetObjectMeta(obj)
        kind == IF obj.gvk # "" THEN obj.gvk ELSE getKindFromType(obj)
    IN  IF kind = ""
        THEN <<NoKey, FALSE>>
        ELSE <<[kind |-> kind, ns |-> meta.ns, name |-> meta.name], TRUE>>

Keys == {GetKey(o)[1] : o \in {x \in Objects : GetKey(x)[2]}}

\* Delete payloads: a live object, a tombstone (DeletedFinalStateUnknown)
\* wrapping an object, or something that is neither
Payloads == [tomb : BOOLEAN, obj : Objects \cup {NotAnObject}]

IsRuntimeObject(x) == x \in Objects

\* ------------------------------------------------------------------ state
VARIABLES
    store,        \* c.store: map[EntityKey]runtime.Object
    muW,          \* c.mu: the goroutines inside Lock()..Unlock()
    muR,          \* c.mu: number of read locks held
    changedCh,    \* c.changedCh: number of buffered signals
    pc,           \* position of each producer inside Upsert/Delete
    arg,          \* the object / key the producer's call works on
    opc,          \* position of the orchestrator (main)
    phase,        \* "loop": inside the build loop, "final": after it
    shutdownCh,   \* TRUE once shutdownCh is closed
    currentGraphRevision,
    list,         \* List(): the slice being filled, as key -> object
    iterLeft,     \* List(): map entries the range loop has not visited
    graphData,    \* the Graph handed to EmitGraph
    tmp,          \* EmitGraph: the temporary file, NoFile when absent
    files,        \* output directory: final name (timestamp) -> content
    clock,        \* time.Now(), in seconds
    emitErr,      \* the err the last EmitGraph returned: "nil" or "error"
    \* ---- history variables (not program state)
    opsLeft,      \* calls the producers may still make
    lastOp,       \* per key: the most recent applied operation
    seqStore,     \* the store of a sequential execution in lock order
    listedStore,  \* the store when List() last took the read lock
    sendsSinceRecv, \* signalChange calls since the consumer last received
    owed,         \* per producer: the mutation it applied after which
                  \* the consumer has not yet received a signal, or None
    unseen,       \* a mutation no List() has started after
    revHist,      \* revisions handed to BuildGraph, in order
    finalBuilds,  \* builds done after the loop was left
    finalEmits,   \* EmitGraph calls done after the loop was left
    sigAtExit,    \* changedCh when the shutdown branch was taken
    \* ---- BuildGraph on its own (BuildSpec)
    snapshot,     \* c.store when List() is called: entries key -> object
    objects,      \* objects := resourceCache.List(), in the order of the range
    graphRevision, \* the revision main hands to BuildGraph
    graph,        \* the Graph BuildGraph returned
    builds,       \* history: BuildGraph calls made on this snapshot
    firstBuild,   \* history: node keys and relationships of the first call,
                  \* as sets, and the first element of each of its slices
    \* ---- history of the calls (CallSpec)
    call,         \* the Upsert or Delete call made last and its argument
    mutations     \* Upserts and Deletes that have changed the map so far

vars == <<store, muW, muR, changedCh, pc, arg, opc, phase, shutdownCh,
          currentGraphRevision, list, iterLeft, graphData, tmp, files, clock,
          emitErr, opsLeft, lastOp, seqStore, listedStore, sendsSinceRecv,
          owed, unseen, revHist, finalBuilds, finalEmits, sigAtExit,
          snapshot, objects, graphRevision, graph, builds, firstBuild,
          call, mutations>>

cacheVars == <<store, muW, muR, changedCh>>
prodVars == <<pc, arg>>
orchVars == <<opc, phase, currentGraphRevision, list, iterLeft, graphData,
              emitErr>>
fsVars == <<tmp, files>>
histVars == <<opsLeft, lastOp, seqStore, listedStore, sendsSinceRecv,
              owed, unseen, revHist, finalBuilds, finalEmits, sigAtExit>>

buildVars == <<snapshot, objects, graphRevision, graph, builds, firstBuild>>
mainVars == <<cacheVars, prodVars, orchVars, fsVars, shutdownCh, clock,
              histVars>>

NoFile == [data |-> "absent"]
NoGraph == [rev |-> 0, objects |-> [k \in Keys |-> NoObj]]
EmptyStore == [k \in Keys |-> NoObj]

\* Graph{Nodes: make([]GraphNode, 0), Relationships: make(...)} before any call
EmptyGraph == [Nodes |-> <<>>, Relationships |-> <<>>, GraphRevision |-> 0]
NoBuild == [nodes |-> {}, rels |-> {}, lead |-> <<>>, leadRel |-> <<>>]
\* no call recorded
NoCall == [op |-> None, payload |-> [tomb |-> FALSE, obj |-> NoObj]]

\* BuildGraph has not been called on its own
BuildIdle ==
    /\ snapshot = {}
    /\ objects = <<>>
    /\ graphRevision = 0
    /\ graph = EmptyGraph
    /\ builds = 0
    /\ firstBuild = NoBuild

\* a start with a change signal already in the channel: main builds once
\* before anything has changed
MainInitSignalled(ops) ==
    /\ store = EmptyStore
    /\ muW = {}
    /\ muR = 0
    /\ changedCh = 1
    /\ pc = [p \in Producers |-> "idle"]
    /\ arg = [p \in Producers |-> NoObj]
    /\ opc = "select"
    /\ phase = "loop"
    /\ shutdownCh = FALSE
    /\ currentGraphRevision = 0
    /\ list = EmptyStore
    /\ iterLeft = {}
    /\ graphData = NoGraph
    /\ tmp = NoFile
    /\ files = [t \in 0..MaxClock |-> NoFile]
    /\ clock = 0
    /\ emitErr = "nil"
    /\ opsLeft = ops
    /\ lastOp = [k \in Keys |-> None]
    /\ seqStore = EmptyStore
    /\ listedStore = EmptyStore
    /\ sendsSinceRecv = 0
    /\ owed = [p \in Producers |-> None]
    /\ unseen = FALSE
    /\ revHist = <<>>
    /\ finalBuilds = 0
    /\ finalEmits = 0
    /\ sigAtExit = None

\* NewResourceCache, the package variables of main, an empty output directory;
\* ops is the number of calls the producers will make
MainInit(ops) ==
    /\ store = EmptyStore
    /\ muW = {}
    /\ muR = 0
    /\ changedCh = 0
    /\ pc = [p \in Producers |-> "idle"]
    /\ arg = [p \in Producers |-> NoObj]
    /\ opc = "select"
    /\ phase = "loop"
    /\ shutdownCh = FALSE
    /\ currentGraphRevision = 0
    /\ list = EmptyStore
    /\ iterLeft = {}
    /\ graphData = NoGraph
    /\ tmp = NoFile
    /\ files = [t \in 0..MaxClock |-> NoFile]
    /\ clock = 0
    /\ emitErr = "nil"
    /\ opsLeft = ops
    /\ lastOp = [k \in Keys |-> None]
    /\ seqStore = EmptyStore
    /\ listedStore = EmptyStore
    /\ sendsSinceRecv = 0
    /\ owed = [p \in Producers |-> None]
    /\ unseen = FALSE
    /\ revHist = <<>>
    /\ finalBuilds = 0
    /\ finalEmits = 0
    /\ sigAtExit = None

InitWith(ops) ==
    MainInit(ops) /\ BuildIdle /\ call = NoCall /\ mutations = 0

Init == InitWith(MaxOps)


\* the process is alive until main returns
Running == opc # "done"

\* ------------------------------------------------------------ sync.RWMutex
\* Lock() returns: no other writer, no reader
CanLock == muW = {} /\ muR = 0

\* RLock() returns: no writer
CanRLock == muW = {}

\* ------------------------------------------------- ResourceCache.signalChange
\* a send that queues behind a pending signal
signalChangeQueued(ch) == ch + 1

\* select { case c.changedCh <- struct{}{}: default: }
signalChange(ch) == IF ch < ChanCap THEN ch + 1 ELSE ch

\* ------------------------------------------------------ ResourceCache.Upsert
\* A goroutine blocked in Lock() has done nothing another goroutine can see,
\* so a call starts with the step in which Lock() returns.

\* an Upsert that enters its critical section without taking the lock
UpsertCallNoLock(p, obj) ==
    /\ Running
    /\ pc[p] = "idle"
    /\ opsLeft > 0
    /\ opsLeft' = opsLeft - 1
    /\ IF GetKey(obj)[2]
       THEN /\ muW' = muW \cup {p}
            /\ pc' = [pc EXCEPT ![p] = "u_store"]
            /\ arg' = [arg EXCEPT ![p] = obj]
            /\ seqStore' = [seqStore EXCEPT ![GetKey(obj)[1]] = obj]
       ELSE UNCHANGED <<muW, pc, arg, seqStore>>
    /\ UNCHANGED <<store, muR, changedCh, orchVars, fsVars, shutdownCh, clock>>
    /\ UNCHANGED <<lastOp, listedStore, sendsSinceRecv, owed, unseen,
                   revHist, finalBuilds, finalEmits, sigAtExit>>
    /\ UNCHANGED <<buildVars, mutations>>

\* an Upsert that signals a change before it returns on !ok
UpsertCallSignalsUnresolved(p, obj) ==
    /\ Running
    /\ pc[p] = "idle"
    /\ opsLeft > 0
    /\ opsLeft' = opsLeft - 1
    /\ IF GetKey(obj)[2]
       THEN /\ CanLock
            /\ muW' = muW \cup {p}
            /\ pc' = [pc EXCEPT ![p] = "u_store"]
            /\ arg' = [arg EXCEPT ![p] = obj]
            /\ seqStore' = [seqStore EXCEPT ![GetKey(obj)[1]] = obj]
            /\ UNCHANGED <<changedCh, sendsSinceRecv>>
       ELSE /\ changedCh' = signalChange(changedCh)
            /\ sendsSinceRecv' = sendsSinceRecv + 1
            /\ UNCHANGED <<muW, pc, arg, seqStore>>
    /\ UNCHANGED <<store, muR, orchVars, fsVars, shutdownCh, clock>>
    /\ UNCHANGED <<lastOp, listedStore, owed, unseen,
                   revHist, finalBuilds, finalEmits, sigAtExit>>
    /\ UNCHANGED <<buildVars, mutations>>

\* key, ok := k8s.GetKey(obj); if !ok { return }; c.mu.Lock()
UpsertCall(p, obj) ==
    /\ Running
    /\ pc[p] = "idle"
    /\ opsLeft > 0
    /\ opsLeft' = opsLeft - 1
    /\ IF GetKey(obj)[2]
       THEN /\ CanLock
            /\ muW' = muW \cup {p}
            /\ pc' = [pc EXCEPT ![p] = "u_store"]
            /\ arg' = [arg EXCEPT ![p] = obj]
            /\ seqStore' = [seqStore EXCEPT ![GetKey(obj)[1]] = obj]
       ELSE UNCHANGED <<muW, pc, arg, seqStore>>
    /\ UNCHANGED <<store, muR, changedCh, orchVars, fsVars, shutdownCh, clock>>
    /\ UNCHANGED <<lastOp, listedStore, sendsSinceRecv, owed, unseen,
                   revHist, finalBuilds, finalEmits, sigAtExit>>
    /\ UNCHANGED <<buildVars, mutations>>

\* what storing obj does to the map: a new record, the same record again, or
\* another record under an existing key
UpsertKind(obj) ==
    LET old == store[GetKey(obj)[1]]
    IN  IF old = NoObj THEN "insert" ELSE IF old = obj THEN "same" ELSE "replace"

\* an Upsert whose write shows in the slice List() returned last, as it would
\* if List() handed out the map itself
UpsertStoreWritesThrough(p) ==
    /\ Running
    /\ pc[p] = "u_store"
    /\ store' = [store EXCEPT ![GetKey(arg[p])[1]] = arg[p]]
    /\ list' = [list EXCEPT ![GetKey(arg[p])[1]] = arg[p]]
    /\ muW' = muW \ {p}
    /\ pc' = [pc EXCEPT ![p] = "u_signal"]
    /\ arg' = [arg EXCEPT ![p] = NoObj]
    /\ lastOp' = [lastOp EXCEPT ![GetKey(arg[p])[1]] = "upsert"]
    /\ unseen' = TRUE
    /\ owed' = [owed EXCEPT ![p] = UpsertKind(arg[p])]
    /\ UNCHANGED <<muR, changedCh, opc, phase, currentGraphRevision, iterLeft,
                   graphData, emitErr, fsVars, shutdownCh, clock>>
    /\ UNCHANGED <<opsLeft, seqStore, listedStore, sendsSinceRecv, revHist,
                   finalBuilds, finalEmits, sigAtExit>>
    /\ UNCHANGED <<buildVars, call>>

\* an Upsert that stores the object under another key than its own
UpsertStoreMiskeyed(p) ==
    /\ Running
    /\ pc[p] = "u_store"
    /\ store' = [store EXCEPT
                    ![CHOOSE k \in Keys : k # GetKey(arg[p])[1]] = arg[p]]
    /\ muW' = muW \ {p}
    /\ pc' = [pc EXCEPT ![p] = "u_signal"]
    /\ arg' = [arg EXCEPT ![p] = NoObj]
    /\ lastOp' = [lastOp EXCEPT ![GetKey(arg[p])[1]] = "upsert"]
    /\ unseen' = TRUE
    /\ owed' = [owed EXCEPT ![p] = UpsertKind(arg[p])]
    /\ UNCHANGED <<muR, changedCh, orchVars, fsVars, shutdownCh, clock>>
    /\ UNCHANGED <<opsLeft, seqStore, listedStore, sendsSinceRecv, revHist,
                   finalBuilds, finalEmits, sigAtExit>>
    /\ UNCHANGED <<buildVars, call>>

\* c.store[key] = obj; c.mu.Unlock()
UpsertStore(p) ==
    /\ Running
    /\ pc[p] = "u_store"
    /\ store' = [store EXCEPT ![GetKey(arg[p])[1]] = arg[p]]
    /\ muW' = muW \ {p}
    /\ pc' = [pc EXCEPT ![p] = "u_signal"]
    /\ arg' = [arg EXCEPT ![p] = NoObj]
    /\ lastOp' = [lastOp EXCEPT ![GetKey(arg[p])[1]] = "upsert"]
    /\ unseen' = TRUE
    /\ owed' = [owed EXCEPT ![p] = UpsertKind(arg[p])]
    /\ UNCHANGED <<muR, changedCh, orchVars, fsVars, shutdownCh, clock>>
    /\ UNCHANGED <<opsLeft, seqStore, listedStore, sendsSinceRecv, revHist,
                   finalBuilds, finalEmits, sigAtExit>>
    /\ UNCHANGED <<buildVars, call>>

\* an Upsert that returns without calling signalChange
UpsertSignalSkipped(p) ==
    /\ Running
    /\ pc[p] = "u_signal"
    /\ pc' = [pc EXCEPT ![p] = "idle"]
    /\ UNCHANGED <<cacheVars, arg, orchVars, fsVars, shutdownCh, clock,
                   histVars>>
    /\ UNCHANGED <<buildVars, call, mutations>>

\* an Upsert whose send waits for room in the channel
UpsertSignalBlocking(p) ==
    /\ Running
    /\ pc[p] = "u_signal"
    /\ changedCh < ChanCap
    /\ changedCh' = changedCh + 1
    /\ sendsSinceRecv' = sendsSinceRecv + 1
    /\ pc' = [pc EXCEPT ![p] = "idle"]
    /\ UNCHANGED <<store, muW, muR, arg, orchVars, fsVars, shutdownCh, clock>>
    /\ UNCHANGED <<opsLeft, lastOp, seqStore, listedStore, owed, unseen,
                   revHist, finalBuilds, finalEmits, sigAtExit>>
    /\ UNCHANGED <<buildVars, call, mutations>>

\* c.signalChange(); return
UpsertSignal(p) ==
    /\ Running
    /\ pc[p] = "u_signal"
    /\ changedCh' = signalChange(changedCh)
    /\ sendsSinceRecv' = sendsSinceRecv + 1
    /\ pc' = [pc EXCEPT ![p] = "idle"]
    /\ UNCHANGED <<store, muW, muR, arg, orchVars, fsVars, shutdownCh, clock>>
    /\ UNCHANGED <<opsLeft, lastOp, seqStore, listedStore, owed, unseen,
                   revHist, finalBuilds, finalEmits, sigAtExit>>
    /\ UNCHANGED <<buildVars, call, mutations>>

\* ------------------------------------------------------ ResourceCache.Delete
\* type assertions that take a tombstone for a payload that is no
\* runtime.Object
DeleteResolveLiveOnly(payload) ==
    IF payload.tomb
    THEN <<payload.obj, FALSE>>
    ELSE <<payload.obj, IsRuntimeObject(payload.obj)>>

\* the type assertions on the payload: <<robj, ok>>
DeleteResolve(payload) ==
    IF payload.tomb
    THEN <<payload.obj, IsRuntimeObject(payload.obj)>>
    ELSE <<payload.obj, IsRuntimeObject(payload.obj)>>

\* a Delete that signals a change before it returns on a payload it cannot
\* resolve
DeleteCallSignalsUnresolved(p, payload) ==
    /\ Running
    /\ pc[p] = "idle"
    /\ opsLeft > 0
    /\ opsLeft' = opsLeft - 1
    /\ LET r == DeleteResolve(payload)
       IN  IF r[2] /\ GetKey(r[1])[2]
           THEN /\ CanLock
                /\ muW' = muW \cup {p}
                /\ pc' = [pc EXCEPT ![p] = "d_check"]
                /\ arg' = [arg EXCEPT ![p] = r[1]]
                /\ seqStore' = [seqStore EXCEPT ![GetKey(r[1])[1]] = NoObj]
                /\ UNCHANGED <<changedCh, sendsSinceRecv>>
           ELSE /\ changedCh' = signalChange(changedCh)
                /\ sendsSinceRecv' = sendsSinceRecv + 1
                /\ UNCHANGED <<muW, pc, arg, seqStore>>
    /\ UNCHANGED <<store, muR, orchVars, fsVars, shutdownCh, clock>>
    /\ UNCHANGED <<lastOp, listedStore, owed, unseen,
                   revHist, finalBuilds, finalEmits, sigAtExit>>
    /\ UNCHANGED <<buildVars, mutations>>

\* unwrap; key, ok := k8s.GetKey(robj); if !ok { return }; c.mu.Lock()
DeleteCall(p, payload) ==
    /\ Running
    /\ pc[p] = "idle"
    /\ opsLeft > 0
    /\ opsLeft' = opsLeft - 1
    /\ LET r == DeleteResolve(payload)
       IN  IF r[2] /\ GetKey(r[1])[2]
           THEN /\ CanLock
                /\ muW' = muW \cup {p}
                /\ pc' = [pc EXCEPT ![p] = "d_check"]
                /\ arg' = [arg EXCEPT ![p] = r[1]]
                /\ seqStore' = [seqStore EXCEPT ![GetKey(r[1])[1]] = NoObj]
           ELSE UNCHANGED <<muW, pc, arg, seqStore>>
    /\ UNCHANGED <<store, muR, changedCh, orchVars, fsVars, shutdownCh, clock>>
    /\ UNCHANGED <<lastOp, listedStore, sendsSinceRecv, owed, unseen,
                   revHist, finalBuilds, finalEmits, sigAtExit>>
    /\ UNCHANGED <<buildVars, mutations>>

\* a Delete that returns from its absent-key branch without unlocking
DeleteApplyLeaksLock(p) ==
    /\ Running
    /\ pc[p] = "d_check"
    /\ LET key == GetKey(arg[p])[1]
       IN  /\ lastOp' = [lastOp EXCEPT ![key] = "delete"]
           /\ IF store[key] # NoObj
              THEN /\ store' = [store EXCEPT ![key] = NoObj]
                   /\ pc' = [pc EXCEPT ![p] = "d_signal"]
                   /\ unseen' = TRUE
                   /\ owed' = [owed EXCEPT ![p] = "delete"]
                   /\ muW' = muW \ {p}
              ELSE /\ pc' = [pc EXCEPT ![p] = "idle"]
                   /\ UNCHANGED <<store, unseen, owed, muW>>
    /\ arg' = [arg EXCEPT ![p] = NoObj]
    /\ UNCHANGED <<muR, changedCh, orchVars, fsVars, shutdownCh, clock>>
    /\ UNCHANGED <<opsLeft, seqStore, listedStore, sendsSinceRecv, revHist,
                   finalBuilds, finalEmits, sigAtExit>>
    /\ UNCHANGED <<buildVars, call>>

\* a Delete that signals whether or not the key was present
DeleteApplyAlwaysSignals(p) ==
    /\ Running
    /\ pc[p] = "d_check"
    /\ LET key == GetKey(arg[p])[1]
       IN  /\ lastOp' = [lastOp EXCEPT ![key] = "delete"]
           /\ store' = [store EXCEPT ![key] = NoObj]
           /\ IF store[key] # NoObj
              THEN /\ unseen' = TRUE
                   /\ owed' = [owed EXCEPT ![p] = "delete"]
              ELSE UNCHANGED <<unseen, owed>>
    /\ pc' = [pc EXCEPT ![p] = "d_signal"]
    /\ arg' = [arg EXCEPT ![p] = NoObj]
    /\ muW' = muW \ {p}
    /\ UNCHANGED <<muR, changedCh, orchVars, fsVars, shutdownCh, clock>>
    /\ UNCHANGED <<opsLeft, seqStore, listedStore, sendsSinceRecv, revHist,
                   finalBuilds, finalEmits, sigAtExit>>
    /\ UNCHANGED <<buildVars, call>>

\* a Delete that signals but leaves the record in the map
DeleteApplyKeepsRecord(p) ==
    /\ Running
    /\ pc[p] = "d_check"
    /\ LET key == GetKey(arg[p])[1]
       IN  /\ lastOp' = [lastOp EXCEPT ![key] = "delete"]
           /\ IF store[key] # NoObj
              THEN /\ pc' = [pc EXCEPT ![p] = "d_signal"]
                   /\ unseen' = TRUE
                   /\ owed' = [owed EXCEPT ![p] = "delete"]
              ELSE /\ pc' = [pc EXCEPT ![p] = "idle"]
                   /\ UNCHANGED <<unseen, owed>>
    /\ arg' = [arg EXCEPT ![p] = NoObj]
    /\ muW' = muW \ {p}
    /\ UNCHANGED <<store, muR, changedCh, orchVars, fsVars, shutdownCh, clock>>
    /\ UNCHANGED <<opsLeft, seqStore, listedStore, sendsSinceRecv, revHist,
                   finalBuilds, finalEmits, sigAtExit>>
    /\ UNCHANGED <<buildVars, call>>

\* _, exists := c.store[key]; if exists { delete; Unlock } else { Unlock }
DeleteApply(p) ==
    /\ Running
    /\ pc[p] = "d_check"
    /\ LET key == GetKey(arg[p])[1]
       IN  /\ lastOp' = [lastOp EXCEPT ![key] = "delete"]
           /\ IF store[key] # NoObj
              THEN /\ store' = [store EXCEPT ![key] = NoObj]
                   /\ pc' = [pc EXCEPT ![p] = "d_signal"]
                   /\ unseen' = TRUE
                   /\ owed' = [owed EXCEPT ![p] = "delete"]
              ELSE /\ pc' = [pc EXCEPT ![p] = "idle"]
                   /\ UNCHANGED <<store, unseen, owed>>
    /\ arg' = [arg EXCEPT ![p] = NoObj]
    /\ muW' = muW \ {p}
    /\ UNCHANGED <<muR, changedCh, orchVars, fsVars, shutdownCh, clock>>
    /\ UNCHANGED <<opsLeft, seqStore, listedStore, sendsSinceRecv, revHist,
                   finalBuilds, finalEmits, sigAtExit>>
    /\ UNCHANGED <<buildVars, call>>

\* a Delete that returns without calling signalChange
DeleteSignalSkipped(p) ==
    /\ Running
    /\ pc[p] = "d_signal"
    /\ pc' = [pc EXCEPT ![p] = "idle"]
    /\ UNCHANGED <<cacheVars, arg, orchVars, fsVars, shutdownCh, clock,
                   histVars>>
    /\ UNCHANGED <<buildVars, call, mutations>>

\* c.signalChange(); return
DeleteSignal(p) ==
    /\ Running
    /\ pc[p] = "d_signal"
    /\ changedCh' = signalChange(changedCh)
    /\ sendsSinceRecv' = sendsSinceRecv + 1
    /\ pc' = [pc EXCEPT ![p] = "idle"]
    /\ UNCHANGED <<store, muW, muR, arg, orchVars, fsVars, shutdownCh, clock>>
    /\ UNCHANGED <<opsLeft, lastOp, seqStore, listedStore, owed, unseen,
                   revHist, finalBuilds, finalEmits, sigAtExit>>
    /\ UNCHANGED <<buildVars, call, mutations>>

\* ------------------------------------------------- Get and List, as results
\* Get(key): <<obj, found>> in the current state
Get(key) == <<store[key], store[key] # NoObj>>

\* the keys of the records List() returns in the current state
ListKeys == {k \in Keys : store[k] # NoObj}

\* -------------------------------------------------------- main: build loop
\* the signal goroutine: close(shutdownCh)
Shutdown ==
    /\ Running
    /\ ~shutdownCh
    /\ shutdownCh' = TRUE
    /\ UNCHANGED <<cacheVars, prodVars, orchVars, fsVars, clock, histVars>>
    /\ UNCHANGED <<buildVars, call, mutations>>

\* one second passes
Tick ==
    /\ Running
    /\ clock < MaxClock
    /\ clock' = clock + 1
    /\ UNCHANGED <<cacheVars, prodVars, orchVars, fsVars, shutdownCh, histVars>>
    /\ UNCHANGED <<buildVars, call, mutations>>

\* a loop that polls: it goes on to build whether a signal is there or not
SelectChangedPolls ==
    /\ opc = "select"
    /\ changedCh' = IF changedCh > 0 THEN changedCh - 1 ELSE changedCh
    /\ opc' = "drain"
    /\ sendsSinceRecv' = 0
    /\ owed' = [p \in Producers |-> None]
    /\ UNCHANGED <<store, muW, muR, prodVars, phase, currentGraphRevision,
                   list, iterLeft, graphData, emitErr, fsVars, shutdownCh,
                   clock>>
    /\ UNCHANGED <<opsLeft, lastOp, seqStore, listedStore, unseen, revHist,
                   finalBuilds, finalEmits, sigAtExit>>
    /\ UNCHANGED <<buildVars, call, mutations>>

\* case <-resourceCache.Changed():
SelectChanged ==
    /\ opc = "select"
    /\ changedCh > 0
    /\ changedCh' = changedCh - 1
    /\ opc' = "drain"
    /\ sendsSinceRecv' = 0
    /\ owed' = [p \in Producers |-> None]
    /\ UNCHANGED <<store, muW, muR, prodVars, phase, currentGraphRevision,
                   list, iterLeft, graphData, emitErr, fsVars, shutdownCh,
                   clock>>
    /\ UNCHANGED <<opsLeft, lastOp, seqStore, listedStore, unseen, revHist,
                   finalBuilds, finalEmits, sigAtExit>>
    /\ UNCHANGED <<buildVars, call, mutations>>

\* a shutdown branch that returns from main at once
SelectShutdownExits ==
    /\ opc = "select"
    /\ shutdownCh
    /\ opc' = "done"
    /\ phase' = "final"
    /\ sigAtExit' = changedCh
    /\ UNCHANGED <<cacheVars, prodVars, currentGraphRevision, list, iterLeft,
                   graphData, emitErr, fsVars, shutdownCh, clock>>
    /\ UNCHANGED <<opsLeft, lastOp, seqStore, listedStore, sendsSinceRecv,
                   owed, unseen, revHist, finalBuilds, finalEmits>>
    /\ UNCHANGED <<buildVars, call, mutations>>

\* a shutdown that main notices wherever it is in the cycle
SelectShutdownPreempts ==
    /\ opc # "done"
    /\ phase = "loop"
    /\ muR = 0
    /\ shutdownCh
    /\ opc' = "rev"
    /\ phase' = "final"
    /\ sigAtExit' = changedCh
    /\ UNCHANGED <<cacheVars, prodVars, currentGraphRevision, list, iterLeft,
                   graphData, emitErr, fsVars, shutdownCh, clock>>
    /\ UNCHANGED <<opsLeft, lastOp, seqStore, listedStore, sendsSinceRecv,
                   owed, unseen, revHist, finalBuilds, finalEmits>>
    /\ UNCHANGED <<buildVars, call, mutations>>

\* a select that prefers the change signal: the shutdown branch is taken only
\* when no signal is pending
SelectShutdownWhenQuiet ==
    /\ opc = "select"
    /\ shutdownCh
    /\ changedCh = 0
    /\ opc' = "rev"
    /\ phase' = "final"
    /\ sigAtExit' = changedCh
    /\ UNCHANGED <<cacheVars, prodVars, currentGraphRevision, list, iterLeft,
                   graphData, emitErr, fsVars, shutdownCh, clock>>
    /\ UNCHANGED <<opsLeft, lastOp, seqStore, listedStore, sendsSinceRecv,
                   owed, unseen, revHist, finalBuilds, finalEmits>>
    /\ UNCHANGED <<buildVars, call, mutations>>

\* case <-shutdownCh: break Loop
SelectShutdown ==
    /\ opc = "select"
    /\ shutdownCh
    /\ opc' = "rev"
    /\ phase' = "final"
    /\ sigAtExit' = changedCh
    /\ UNCHANGED <<cacheVars, prodVars, currentGraphRevision, list, iterLeft,
                   graphData, emitErr, fsVars, shutdownCh, clock>>
    /\ UNCHANGED <<opsLeft, lastOp, seqStore, listedStore, sendsSinceRecv,
                   owed, unseen, revHist, finalBuilds, finalEmits>>
    /\ UNCHANGED <<buildVars, call, mutations>>

\* drain: one round of for { select { case <-ch: default: return } }
Drain ==
    /\ opc = "drain"
    /\ IF changedCh > 0
       THEN /\ changedCh' = changedCh - 1
            /\ sendsSinceRecv' = 0
            /\ owed' = [p \in Producers |-> None]
            /\ opc' = opc
       ELSE /\ opc' = "rev"
            /\ UNCHANGED <<changedCh, sendsSinceRecv, owed>>
    /\ UNCHANGED <<store, muW, muR, prodVars, phase, currentGraphRevision,
                   list, iterLeft, graphData, emitErr, fsVars, shutdownCh,
                   clock>>
    /\ UNCHANGED <<opsLeft, lastOp, seqStore, listedStore, unseen, revHist,
                   finalBuilds, finalEmits, sigAtExit>>
    /\ UNCHANGED <<buildVars, call, mutations>>

\* a final build that takes the latest revision instead of a fresh one
NextRevisionFinalReuses ==
    /\ opc = "rev"
    /\ currentGraphRevision' = IF phase = "final" /\ currentGraphRevision > 0
                               THEN currentGraphRevision
                               ELSE currentGraphRevision + 1
    /\ revHist' = Append(revHist, currentGraphRevision')
    /\ opc' = "list_rlock"
    /\ UNCHANGED <<cacheVars, prodVars, phase, list, iterLeft, graphData,
                   emitErr, fsVars, shutdownCh, clock>>
    /\ UNCHANGED <<opsLeft, lastOp, seqStore, listedStore, sendsSinceRecv,
                   owed, unseen, finalBuilds, finalEmits, sigAtExit>>
    /\ UNCHANGED <<buildVars, call, mutations>>

\* a build that takes the revision of the previous build again when the
\* emit of that build failed
NextRevisionRetries ==
    /\ opc = "rev"
    /\ currentGraphRevision' = IF emitErr = "error" THEN currentGraphRevision
                               ELSE currentGraphRevision + 1
    /\ revHist' = Append(revHist, currentGraphRevision')
    /\ opc' = "list_rlock"
    /\ UNCHANGED <<cacheVars, prodVars, phase, list, iterLeft, graphData,
                   emitErr, fsVars, shutdownCh, clock>>
    /\ UNCHANGED <<opsLeft, lastOp, seqStore, listedStore, sendsSinceRecv,
                   owed, unseen, finalBuilds, finalEmits, sigAtExit>>
    /\ UNCHANGED <<buildVars, call, mutations>>

\* currentGraphRevision++; graphRevision := currentGraphRevision
NextRevision ==
    /\ opc = "rev"
    /\ currentGraphRevision' = currentGraphRevision + 1
    /\ revHist' = Append(revHist, currentGraphRevision')
    /\ opc' = "list_rlock"
    /\ UNCHANGED <<cacheVars, prodVars, phase, list, iterLeft, graphData,
                   emitErr, fsVars, shutdownCh, clock>>
    /\ UNCHANGED <<opsLeft, lastOp, seqStore, listedStore, sendsSinceRecv,
                   owed, unseen, finalBuilds, finalEmits, sigAtExit>>
    /\ UNCHANGED <<buildVars, call, mutations>>

\* a List() that hands out the slice of the previous call
ListRLockCached ==
    /\ opc = "list_rlock"
    /\ CanRLock
    /\ muR' = muR + 1
    /\ list' = list
    /\ iterLeft' = {}
    /\ opc' = "list_iter"
    /\ listedStore' = store
    /\ UNCHANGED <<store, muW, changedCh, prodVars, phase,
                   currentGraphRevision, graphData, emitErr, fsVars,
                   shutdownCh, clock>>
    /\ UNCHANGED <<opsLeft, lastOp, seqStore, sendsSinceRecv, owed, unseen,
                   revHist, finalBuilds, finalEmits, sigAtExit>>
    /\ UNCHANGED <<buildVars, call, mutations>>

\* BuildGraph -> List(): c.mu.RLock(); list := make(...)
ListRLock ==
    /\ opc = "list_rlock"
    /\ CanRLock
    /\ muR' = muR + 1
    /\ list' = EmptyStore
    /\ iterLeft' = Keys
    /\ opc' = "list_iter"
    /\ listedStore' = store
    /\ unseen' = FALSE
    /\ UNCHANGED <<store, muW, changedCh, prodVars, phase,
                   currentGraphRevision, graphData, emitErr, fsVars,
                   shutdownCh, clock>>
    /\ UNCHANGED <<opsLeft, lastOp, seqStore, sendsSinceRecv, owed,
                   revHist, finalBuilds, finalEmits, sigAtExit>>
    /\ UNCHANGED <<buildVars, call, mutations>>

\* List(): one round of for _, obj := range c.store { list = append(list, obj) }
ListIter ==
    /\ opc = "list_iter"
    /\ iterLeft # {}
    /\ \E k \in iterLeft :
         /\ iterLeft' = iterLeft \ {k}
         /\ list' = IF store[k] # NoObj THEN [list EXCEPT ![k] = store[k]]
                    ELSE list
    /\ UNCHANGED <<cacheVars, prodVars, opc, phase, currentGraphRevision,
                   graphData, emitErr, fsVars, shutdownCh, clock, histVars>>
    /\ UNCHANGED <<buildVars, call, mutations>>

\* List(): c.mu.RUnlock(); return list -- and the Graph built from it
ListReturn ==
    /\ opc = "list_iter"
    /\ iterLeft = {}
    /\ muR' = muR - 1
    /\ graphData' = [rev |-> currentGraphRevision, objects |-> list]
    /\ finalBuilds' = IF phase = "final" THEN finalBuilds + 1 ELSE finalBuilds
    /\ opc' = "emit_create"
    /\ UNCHANGED <<store, muW, changedCh, prodVars, phase,
                   currentGraphRevision, list, iterLeft, emitErr, fsVars,
                   shutdownCh, clock>>
    /\ UNCHANGED <<opsLeft, lastOp, seqStore, listedStore, sendsSinceRecv,
                   owed, unseen, revHist, finalEmits, sigAtExit>>
    /\ UNCHANGED <<buildVars, call, mutations>>


\* ---------------------------------------------------------------- EmitGraph
\* a main that exits when EmitGraph returns an error
ReturnFatal(err) ==
    /\ emitErr' = err
    /\ opc' = IF phase = "loop" /\ err = "nil" THEN "select" ELSE "done"

\* EmitGraph returns err to main: back to the select, or main returns
Return(err) ==
    /\ emitErr' = err
    /\ opc' = IF phase = "loop" THEN "select" ELSE "done"

\* a temporary file still in the directory after the call that made it has
\* returned; what it holds plays no part from then on
LeftBehind == [data |-> "left behind"]

\* the deferred func: _ = tempFile.Close(); _ = os.Remove(tempFile.Name()),
\* the error of os.Remove dropped
Cleanup == \E removed \in BOOLEAN : tmp' = IF removed THEN NoFile ELSE LeftBehind

EmitUnchanged ==
    /\ UNCHANGED <<cacheVars, prodVars, phase, currentGraphRevision, list,
                   iterLeft, graphData, shutdownCh, clock>>
    /\ UNCHANGED <<opsLeft, lastOp, seqStore, listedStore, sendsSinceRecv,
                   owed, unseen, revHist, finalBuilds, sigAtExit>>
    /\ UNCHANGED <<buildVars, call, mutations>>

\* os.MkdirAll, json.MarshalIndent, os.CreateTemp(outputDir, "graph-*.json.tmp")
EmitCreate(outcome) ==
    /\ opc = "emit_create"
    /\ finalEmits' = IF phase = "final" THEN finalEmits + 1 ELSE finalEmits
    /\ IF outcome = "ok"
       THEN /\ tmp' = [data |-> "empty", synced |-> FALSE, open |-> TRUE,
                       graph |-> NoGraph]
            /\ opc' = "emit_write"
            /\ emitErr' = emitErr
       ELSE /\ tmp' = tmp
            /\ Return("error")
    /\ UNCHANGED files
    /\ EmitUnchanged

\* tempFile.Write(jsonData): the first bytes reach the temporary file
EmitWriteBegin ==
    /\ opc = "emit_write"
    /\ tmp' = [tmp EXCEPT !.data = "partial", !.graph = graphData]
    /\ opc' = "emit_write_end"
    /\ UNCHANGED <<files, emitErr, finalEmits>>
    /\ EmitUnchanged

\* tempFile.Write(jsonData) returns
EmitWriteEnd(outcome) ==
    /\ opc = "emit_write_end"
    /\ IF outcome = "ok"
       THEN /\ tmp' = [tmp EXCEPT !.data = "full"]
            /\ opc' = "emit_sync"
            /\ emitErr' = emitErr
       ELSE /\ Cleanup
            /\ Return("error")
    /\ UNCHANGED <<files, finalEmits>>
    /\ EmitUnchanged

\* an EmitGraph that goes on to close and rename when Sync fails
EmitSyncIgnoresError(outcome) ==
    /\ opc = "emit_sync"
    /\ tmp' = IF outcome = "ok" THEN [tmp EXCEPT !.synced = TRUE] ELSE tmp
    /\ opc' = "emit_close"
    /\ UNCHANGED <<files, emitErr, finalEmits>>
    /\ EmitUnchanged

\* tempFile.Sync()
EmitSync(outcome) ==
    /\ opc = "emit_sync"
    /\ IF outcome = "ok"
       THEN /\ tmp' = [tmp EXCEPT !.synced = TRUE]
            /\ opc' = "emit_close"
            /\ emitErr' = emitErr
       ELSE /\ Cleanup
            /\ Return("error")
    /\ UNCHANGED <<files, finalEmits>>
    /\ EmitUnchanged

\* tempFile.Close()
EmitClose(outcome) ==
    /\ opc = "emit_close"
    /\ IF outcome = "ok"
       THEN /\ tmp' = [tmp EXCEPT !.open = FALSE]
            /\ opc' = "emit_rename"
            /\ emitErr' = emitErr
       ELSE /\ Cleanup
            /\ Return("error")
    /\ UNCHANGED <<files, finalEmits>>
    /\ EmitUnchanged

\* timestamp := time.Now().Format("20060102-150405"): the name of the second
finalFilename == clock

\* os.Rename(tempFile.Name(), finalFilename); tempFile = nil; return nil
EmitRename(outcome) ==
    /\ opc = "emit_rename"
    /\ IF outcome = "ok"
       THEN /\ files' = [files EXCEPT ![finalFilename] = tmp]
            /\ tmp' = NoFile
            /\ Return("nil")
       ELSE /\ files' = files
            /\ Cleanup
            /\ Return("error")
    /\ UNCHANGED finalEmits
    /\ EmitUnchanged

\* the file EmitGraph leaves under the final name when no step fails
EmittedFile(g) ==
    [data |-> "full", synced |-> TRUE, open |-> FALSE, graph |-> g]

\* EmitGraph from call to return as one step: it touches nothing the
\* producers touch.  failAt names the step that fails, "nil" when none does.
EmitGraph(failAt) ==
    /\ opc = "emit_create"
    /\ finalEmits' = IF phase = "final" THEN finalEmits + 1 ELSE finalEmits
    /\ files' = IF failAt = "nil"
                THEN [files EXCEPT ![finalFilename] = EmittedFile(graphData)]
                ELSE files
    /\ IF failAt = "nil" THEN tmp' = NoFile
       ELSE IF failAt \in {"mkdir", "create"} THEN tmp' = tmp
       ELSE Cleanup
    /\ Return(IF failAt = "nil" THEN "nil" ELSE "error")
    /\ EmitUnchanged

EmitSteps == {"mkdir", "create", "write", "sync", "close", "rename"}

\* ------------------------------------------ Upsert and Delete as single steps
\* Upsert from call to return, for a caller that is not interleaved with
UpsertWhole(p, obj) ==
    /\ Running
    /\ pc[p] = "idle"
    /\ opsLeft > 0
    /\ opsLeft' = opsLeft - 1
    /\ IF GetKey(obj)[2]
       THEN /\ CanLock
            /\ store' = [store EXCEPT ![GetKey(obj)[1]] = obj]
            /\ seqStore' = [seqStore EXCEPT ![GetKey(obj)[1]] = obj]
            /\ lastOp' = [lastOp EXCEPT ![GetKey(obj)[1]] = "upsert"]
            /\ unseen' = TRUE
            /\ owed' = [owed EXCEPT ![p] = UpsertKind(obj)]
            /\ changedCh' = signalChange(changedCh)
            /\ sendsSinceRecv' = sendsSinceRecv + 1
       ELSE UNCHANGED <<store, seqStore, lastOp, unseen, owed, changedCh,
                        sendsSinceRecv>>
    /\ UNCHANGED <<muW, muR, prodVars, orchVars, fsVars, shutdownCh, clock>>
    /\ UNCHANGED <<listedStore, revHist, finalBuilds, finalEmits, sigAtExit>>
    /\ UNCHANGED <<buildVars, call, mutations>>

\* Delete from call to return, for a caller that is not interleaved with
DeleteWhole(p, payload) ==
    /\ Running
    /\ pc[p] = "idle"
    /\ opsLeft > 0
    /\ opsLeft' = opsLeft - 1
    /\ LET r == DeleteResolve(payload)
           key == GetKey(r[1])[1]
       IN  IF r[2] /\ GetKey(r[1])[2]
           THEN /\ CanLock
                /\ seqStore' = [seqStore EXCEPT ![key] = NoObj]
                /\ lastOp' = [lastOp EXCEPT ![key] = "delete"]
                /\ IF store[key] # NoObj
                   THEN /\ store' = [store EXCEPT ![key] = NoObj]
                        /\ unseen' = TRUE
                        /\ owed' = [owed EXCEPT ![p] = "delete"]
                        /\ changedCh' = signalChange(changedCh)
                        /\ sendsSinceRecv' = sendsSinceRecv + 1
                   ELSE UNCHANGED <<store, unseen, owed, changedCh,
                                    sendsSinceRecv>>
           ELSE UNCHANGED <<store, seqStore, lastOp, unseen, owed,
                            changedCh, sendsSinceRecv>>
    /\ UNCHANGED <<muW, muR, prodVars, orchVars, fsVars, shutdownCh, clock>>
    /\ UNCHANGED <<listedStore, revHist, finalBuilds, finalEmits, sigAtExit>>
    /\ UNCHANGED <<buildVars, call, mutations>>

\* ------------------------------------------------------------ specifications
Producer(p) ==
    \/ \E obj \in Objects : UpsertCall(p, obj) /\ UNCHANGED call
    \/ UpsertStore(p) /\ UNCHANGED mutations
    \/ UpsertSignal(p)
    \/ \E payload \in Payloads : DeleteCall(p, payload) /\ UNCHANGED call
    \/ DeleteApply(p) /\ UNCHANGED mutations
    \/ DeleteSignal(p)

\* what a producer does once inside a call
ProducerStep(p) ==
    \/ UpsertStore(p) /\ UNCHANGED mutations
    \/ UpsertSignal(p)
    \/ DeleteApply(p) /\ UNCHANGED mutations
    \/ DeleteSignal(p)

\* main up to the call of EmitGraph
BuildLoop ==
    \/ SelectChanged
    \/ SelectShutdown
    \/ Drain
    \/ NextRevision
    \/ ListRLock
    \/ ListIter
    \/ ListReturn

Orchestrator ==
    \/ BuildLoop
    \/ \E f \in EmitSteps \cup {"nil"} : EmitGraph(f)

\* Spec: the goroutines of the cache and of main interleaved at every lock
\* and channel operation, each EmitGraph call as one step
Next ==
    \/ \E p \in Producers : Producer(p)
    \/ Orchestrator
    \/ Shutdown

Spec == Init /\ [][Next]_vars

\* the Go scheduler runs every runnable goroutine: main, and each producer
\* once it is inside a call
FairSpec ==
    /\ InitWith(MaxLiveOps)
    /\ [][Next]_vars
    /\ WF_vars(Orchestrator)
    /\ \A p \in Producers : WF_vars(ProducerStep(p))

\* what main does between two selects
CycleStep ==
    \/ Drain
    \/ NextRevision
    \/ ListRLock
    \/ ListIter
    \/ ListReturn
    \/ \E f \in EmitSteps \cup {"nil"} : EmitGraph(f)

\* Go's select picks uniformly at random among its ready cases: a case that
\* is ready again and again is eventually picked. Nothing is said about the
\* change branch; main and the producers run as in FairSpec
SelectFairSpec ==
    /\ InitWith(MaxLiveOps)
    /\ [][Next]_vars
    /\ WF_vars(CycleStep)
    /\ SF_vars(SelectShutdown)
    /\ \A p \in Producers : WF_vars(ProducerStep(p))

\* the same, with nothing said about how often main runs: every producer
\* inside a call is scheduled, main may stay in its select for ever
ProducerFairSpec ==
    /\ InitWith(MaxLiveOps)
    /\ [][Next]_vars
    /\ \A p \in Producers : WF_vars(ProducerStep(p))

\* EmitSpec: EmitGraph step by step on a file system whose operations can
\* fail and a clock that advances, each Upsert and Delete call as one step
EmitNext ==
    \/ \E obj \in Objects : UpsertWhole("p1", obj)
    \/ \E payload \in Payloads : DeleteWhole("p1", payload)
    \/ BuildLoop
    \/ \E o \in {"ok", "mkdir", "create"} : EmitCreate(o)
    \/ EmitWriteBegin
    \/ \E o \in {"ok", "fail"} : EmitWriteEnd(o)
    \/ \E o \in {"ok", "fail"} : EmitSync(o)
    \/ \E o \in {"ok", "fail"} : EmitClose(o)
    \/ \E o \in {"ok", "fail"} : EmitRename(o)
    \/ Shutdown
    \/ Tick

EmitSpec == Init /\ [][EmitNext]_vars


\* CallSpec: Spec with a record of the call made last, Upsert(obj) as the
\* payload [tomb |-> FALSE, obj |-> obj]
Called(p) ==
    \/ \E obj \in Objects :
          /\ UpsertCall(p, obj)
          /\ call' = [op |-> "Upsert", payload |-> [tomb |-> FALSE, obj |-> obj]]
    \/ \E payload \in Payloads :
          /\ DeleteCall(p, payload)
          /\ call' = [op |-> "Delete", payload |-> payload]

\* the rest of a call, with the changes of the map counted: every Upsert
\* that reaches the map, every Delete that finds its key
Applied(p) ==
    \/ UpsertStore(p) /\ mutations' = mutations + 1
    \/ UpsertSignal(p)
    \/ /\ DeleteApply(p)
       /\ mutations' = IF store' # store THEN mutations + 1 ELSE mutations
    \/ DeleteSignal(p)

CallNext ==
    \/ \E p \in Producers : Called(p)
    \/ \E p \in Producers : Applied(p)
    \/ Orchestrator
    \/ Shutdown

CallSpec == InitWith(MaxCalls) /\ [][CallNext]_vars

\* ---------------------------------------------------------------- BuildGraph
\* bounds of BuildSpec: the objects of a drawn snapshot, the BuildGraph calls
\* made on one snapshot
MaxSnapshot == 3
MaxBuilds == 2

\* The objects BuildGraph reads: besides type, kind, namespace and name, the
\* ObjectMeta.OwnerReferences and Labels, and for a Pod Spec.NodeName and
\* Spec.Volumes, for a Service Spec.Selector.  A map[string]string is the set of
\* its key/value pairs; a nil map and an empty map are told apart.
OwnerRef(kind, name) == [Kind |-> kind, Name |-> name]
\* a volume with VolumeSource.ConfigMap set, and one with another source
ConfigMapVolume(name) == [ConfigMap |-> name]
OtherVolume == [ConfigMap |-> None]
NilMap == [isNil |-> TRUE, pairs |-> {}]
Map(pairs) == [isNil |-> FALSE, pairs |-> pairs]

Object(type, ns, name) ==
    [type |-> type, gvk |-> "", ns |-> ns, name |-> name, ver |-> 1,
     owners |-> <<>>, labels |-> NilMap, nodeName |-> "", volumes |-> <<>>,
     selector |-> NilMap]

\* the objects of TestBuildGraph_Relationships
TestDeploy == Object("Deployment", "graph-test", "test-deploy")
TestRS ==
    [Object("ReplicaSet", "graph-test", "test-rs") EXCEPT
        !.owners = <<OwnerRef("Deployment", "test-deploy")>>]
TestPod ==
    [Object("Pod", "graph-test", "test-pod") EXCEPT
        !.labels = Map({<<"app", "test">>}),
        !.owners = <<OwnerRef("ReplicaSet", "test-rs")>>,
        !.nodeName = "test-node",
        !.volumes = <<ConfigMapVolume("test-cm")>>]
TestNode == Object("Node", "", "test-node")
TestSvc ==
    [Object("Service", "graph-test", "test-svc") EXCEPT
        !.selector = Map({<<"app", "test">>})]
TestCM == Object("ConfigMap", "graph-test", "test-cm")

\* further objects: services without a selector, a second pod the test
\* service selects, a pod of the same name in another namespace, an object of
\* a type outside the type switches with its kind set
EmptySvc ==
    [Object("Service", "graph-test", "empty-svc") EXCEPT !.selector = Map({})]
NilSvc == Object("Service", "graph-test", "nil-svc")
TestPod2 ==
    [Object("Pod", "graph-test", "test-pod-2") EXCEPT
        !.labels = Map({<<"app", "test">>, <<"tier", "web">>}),
        !.volumes = <<OtherVolume>>]
OtherPod ==
    [Object("Pod", "other", "test-pod") EXCEPT
        !.gvk = "Pod",
        !.labels = Map({<<"app", "test">>}),
        !.owners = <<OwnerRef("Deployment", "test-deploy")>>]
TestEvent == [Object("Event", "graph-test", "ev") EXCEPT !.gvk = "Event"]
\* a service whose selector has two pairs; a pod without labels, owned by an
\* object of a kind outside the OWNED_BY rules, scheduled on a node no one
\* upserted, with two volumes of the same config map around a volume of
\* another source; a config map that carries an owner reference
WebSvc ==
    [Object("Service", "graph-test", "web-svc") EXCEPT
        !.selector = Map({<<"app", "test">>, <<"tier", "web">>})]
BusyPod ==
    [Object("Pod", "graph-test", "busy-pod") EXCEPT
        !.owners = <<OwnerRef("DaemonSet", "test-ds")>>,
        !.nodeName = "gone-node",
        !.volumes = <<ConfigMapVolume("test-cm"), OtherVolume,
                      ConfigMapVolume("test-cm")>>]
OwnedCM ==
    [Object("ConfigMap", "graph-test", "owned-cm") EXCEPT
        !.owners = <<OwnerRef("Deployment", "test-deploy")>>]
\* a replica set with an owner reference to a replica set before the one to
\* its deployment
NestedRS ==
    [Object("ReplicaSet", "graph-test", "nested-rs") EXCEPT
        !.owners = <<OwnerRef("ReplicaSet", "test-rs"),
                     OwnerRef("Deployment", "test-deploy")>>]

TestObjects == {TestDeploy, TestRS, TestPod, TestNode, TestSvc, TestCM}
World ==
    TestObjects \cup {EmptySvc, NilSvc, TestPod2, OtherPod, TestEvent, WebSvc,
                      BusyPod, OwnedCM, NestedRS}

\* what Upsert leaves in c.store for obj: the entry key -> obj
Entry(obj) == [key |-> GetKey(obj)[1], obj |-> obj]

\* the contents c.store can have: every object has a key and no two entries
\* share one
IsStore(S) ==
    /\ \A o \in S : GetKey(o)[2]
    /\ \A o1, o2 \in S : GetKey(o1)[1] = GetKey(o2)[1] => o1 = o2

Snapshots ==
    {{Entry(o) : o \in S} :
        S \in {T \in SUBSET World : IsStore(T) /\ Cardinality(T) <= MaxSnapshot}
              \cup {TestObjects}}

\* a graph key that leaves the namespace out
GraphEntityKeyNoNamespace(key) ==
    [Name |-> key.name, Namespace |-> "", Kind |-> key.kind]

\* GraphEntityKey{Name: key.Name, Namespace: key.Namespace, Kind: key.Kind}
GraphEntityKey(key) ==
    [Name |-> key.name, Namespace |-> key.ns, Kind |-> key.kind]

\* GraphNode, without the Properties of extractProperties, which no
\* relationship rule reads
GraphNode(key, rev) == [Key |-> key, Revision |-> rev]

\* a GraphRelationship literal that leaves Revision at its zero value
GraphRelationshipNoRevision(source, target, type, rev) ==
    [Source |-> source, Target |-> target, RelationshipType |-> type,
     Revision |-> 0]

GraphRelationship(source, target, type, rev) ==
    [Source |-> source, Target |-> target, RelationshipType |-> type,
     Revision |-> rev]

\* the first loop: one node per object whose key resolves
RECURSIVE BuildNodes(_, _)
BuildNodes(objs, rev) ==
    IF objs = <<>> THEN <<>>
    ELSE LET k == GetKey(Head(objs))
         IN  (IF k[2] THEN <<GraphNode(GraphEntityKey(k[1]), rev)>> ELSE <<>>)
             \o BuildNodes(Tail(objs), rev)

\* a podMap keyed by what the TypeMeta of a typed object says of its kind:
\* nothing
PodMapKindless(objs) ==
    LET idx == {i \in 1..Len(objs) : objs[i].type = "Pod"}
        keyAt(i) == [GraphEntityKey(GetKey(objs[i])[1]) EXCEPT !.Kind = ""]
    IN  [k \in {keyAt(i) : i \in idx} |->
            objs[CHOOSE i \in idx :
                    /\ keyAt(i) = k
                    /\ \A j \in idx : keyAt(j) = k => j <= i]]

\* the second loop: podMap[graphKey] = pod for every *corev1.Pod, a later
\* pod replacing an earlier one under the same key
PodMap(objs) ==
    LET idx == {i \in 1..Len(objs) : objs[i].type = "Pod"}
        keyAt(i) == GraphEntityKey(GetKey(objs[i])[1])
    IN  [k \in {keyAt(i) : i \in idx} |->
            objs[CHOOSE i \in idx :
                    /\ keyAt(i) = k
                    /\ \A j \in idx : keyAt(j) = k => j <= i]]

\* the orders in which range podMap can visit the keys of the map
RangeOrders(S) ==
    {s \in [1..Cardinality(S) -> S] :
        \A i, j \in 1..Cardinality(S) : i # j => s[i] # s[j]}

\* owner references followed whatever the kind of the owner
RECURSIVE OwnerRelsAnyKind(_, _, _, _, _)
OwnerRelsAnyKind(source, o, refs, kinds, rev) ==
    IF refs = <<>> THEN <<>>
    ELSE <<GraphRelationship(source,
              [Name |-> Head(refs).Name, Namespace |-> o.ns,
               Kind |-> Head(refs).Kind],
              "OWNED_BY", rev)>>
         \o OwnerRelsAnyKind(source, o, Tail(refs), kinds, rev)

\* OWNED_BY: one relationship per owner reference of one of the kinds, in the
\* object's namespace
RECURSIVE OwnerRels(_, _, _, _, _)
OwnerRels(source, o, refs, kinds, rev) ==
    IF refs = <<>> THEN <<>>
    ELSE (IF Head(refs).Kind \in kinds
          THEN <<GraphRelationship(source,
                    [Name |-> Head(refs).Name, Namespace |-> o.ns,
                     Kind |-> Head(refs).Kind],
                    "OWNED_BY", rev)>>
          ELSE <<>>)
         \o OwnerRels(source, o, Tail(refs), kinds, rev)

\* a SCHEDULED_ON target that takes the pod's namespace
NodeTargetNamespaced(o) ==
    [Name |-> o.nodeName, Namespace |-> o.ns, Kind |-> "Node"]

\* GraphEntityKey{Name: o.Spec.NodeName, Kind: "Node"}
NodeTarget(o) == [Name |-> o.nodeName, Namespace |-> "", Kind |-> "Node"]

\* a SCHEDULED_ON rule without the test of the node name
ScheduledRelsUnguarded(source, o, rev) ==
    <<GraphRelationship(source, NodeTarget(o), "SCHEDULED_ON", rev)>>

\* SCHEDULED_ON: if o.Spec.NodeName != ""
ScheduledRels(source, o, rev) ==
    IF o.nodeName # ""
    THEN <<GraphRelationship(source, NodeTarget(o), "SCHEDULED_ON", rev)>>
    ELSE <<>>

\* a MOUNTS rule that follows every volume, whatever its source
RECURSIVE MountRelsEveryVolume(_, _, _, _)
MountRelsEveryVolume(source, o, vols, rev) ==
    IF vols = <<>> THEN <<>>
    ELSE <<GraphRelationship(source,
              [Name |-> Head(vols).ConfigMap, Namespace |-> o.ns,
               Kind |-> "ConfigMap"],
              "MOUNTS", rev)>>
         \o MountRelsEveryVolume(source, o, Tail(vols), rev)

\* MOUNTS: one relationship per volume with vol.ConfigMap != nil
RECURSIVE MountRels(_, _, _, _)
MountRels(source, o, vols, rev) ==
    IF vols = <<>> THEN <<>>
    ELSE (IF Head(vols).ConfigMap # None
          THEN <<GraphRelationship(source,
                    [Name |-> Head(vols).ConfigMap, Namespace |-> o.ns,
                     Kind |-> "ConfigMap"],
                    "MOUNTS", rev)>>
          ELSE <<>>)
         \o MountRels(source, o, Tail(vols), rev)

\* a selector that matches as soon as one of its pairs is a label
MatchesAny(selector, podLabels) ==
    \E pair \in selector.pairs : pair \in podLabels.pairs

\* labels.SelectorFromSet(selector).Matches(labels.Set(podLabels)): every
\* pair of the selector is a pair of the labels; the selector of an empty set
\* matches everything
Matches(selector, podLabels) ==
    \A pair \in selector.pairs : pair \in podLabels.pairs

\* a selection that leaves out the comparison of the namespaces
RECURSIVE SelectRelsAnyNamespace(_, _, _, _, _)
SelectRelsAnyNamespace(source, o, podMap, podOrder, rev) ==
    IF podOrder = <<>> THEN <<>>
    ELSE LET podKey == Head(podOrder)
             pod == podMap[podKey]
         IN  (IF Matches(o.selector, pod.labels)
              THEN <<GraphRelationship(source, podKey, "SELECTS", rev)>>
              ELSE <<>>)
             \o SelectRelsAnyNamespace(source, o, podMap, Tail(podOrder), rev)

\* the pods of podMap, in range order, that a service selects
RECURSIVE SelectRels(_, _, _, _, _)
SelectRels(source, o, podMap, podOrder, rev) ==
    IF podOrder = <<>> THEN <<>>
    ELSE LET podKey == Head(podOrder)
             pod == podMap[podKey]
         IN  (IF pod.ns = o.ns /\ Matches(o.selector, pod.labels)
              THEN <<GraphRelationship(source, podKey, "SELECTS", rev)>>
              ELSE <<>>)
             \o SelectRels(source, o, podMap, Tail(podOrder), rev)

\* a Service case that stops at the first pod it selects
ServiceRelsFirstMatch(source, o, podMap, podOrder, rev) ==
    LET all == IF ~o.selector.isNil /\ Cardinality(o.selector.pairs) > 0
               THEN SelectRels(source, o, podMap, podOrder, rev)
               ELSE <<>>
    IN  IF all = <<>> THEN <<>> ELSE <<Head(all)>>

\* a Service case without the guard on the selector
ServiceRelsUnguarded(source, o, podMap, podOrder, rev) ==
    SelectRels(source, o, podMap, podOrder, rev)

\* SELECTS: if o.Spec.Selector != nil && len(o.Spec.Selector) > 0
ServiceRels(source, o, podMap, podOrder, rev) ==
    IF ~o.selector.isNil /\ Cardinality(o.selector.pairs) > 0
    THEN SelectRels(source, o, podMap, podOrder, rev)
    ELSE <<>>

\* switch o := obj.(type): the relationships one object originates
ObjectRels(obj, podMap, podOrder, rev) ==
    LET source == GraphEntityKey(GetKey(obj)[1])
    IN  CASE obj.type = "Pod" ->
                OwnerRels(source, obj, obj.owners,
                          {"ReplicaSet", "Deployment"}, rev)
                \o ScheduledRels(source, obj, rev)
                \o MountRels(source, obj, obj.volumes, rev)
          [] obj.type = "ReplicaSet" ->
                OwnerRels(source, obj, obj.owners, {"Deployment"}, rev)
          [] obj.type = "Service" ->
                ServiceRels(source, obj, podMap, podOrder, rev)
          [] OTHER -> <<>>

\* the third loop, over the objects whose key resolves
RECURSIVE BuildRelationships(_, _, _, _)
BuildRelationships(objs, podMap, podOrder, rev) ==
    IF objs = <<>> THEN <<>>
    ELSE (IF GetKey(Head(objs))[2]
          THEN ObjectRels(Head(objs), podMap, podOrder, rev)
          ELSE <<>>)
         \o BuildRelationships(Tail(objs), podMap, podOrder, rev)

\* BuildGraph on the slice List() returned; podOrder is the order in which
\* range podMap visits the pods
BuildGraph(objs, podOrder, rev) ==
    [Nodes |-> BuildNodes(objs, rev),
     Relationships |-> BuildRelationships(objs, PodMap(objs), podOrder, rev),
     GraphRevision |-> rev]

\* the node keys and the (source, target, type) triples of a Graph, as sets
NodeKeys(g) == {g.Nodes[i].Key : i \in DOMAIN g.Nodes}
Triple(r) ==
    [Source |-> r.Source, Target |-> r.Target,
     RelationshipType |-> r.RelationshipType]
Triples(g) == {Triple(g.Relationships[i]) : i \in DOMAIN g.Relationships}

Listed == {objects[i] : i \in DOMAIN objects}

\* List(): one round of for _, obj := range c.store { list = append(list, obj) }
BuildList ==
    /\ graph = EmptyGraph
    /\ \E e \in snapshot :
         /\ e.obj \notin Listed
         /\ objects' = Append(objects, e.obj)
    /\ UNCHANGED <<snapshot, graphRevision, graph, builds, firstBuild>>
    /\ UNCHANGED <<mainVars, call, mutations>>

\* currentGraphRevision++; graphData := graph.BuildGraph(resourceCache, rev)
Build ==
    /\ graph = EmptyGraph
    /\ Len(objects) = Cardinality(snapshot)
    /\ graphRevision' = graphRevision + 1
    /\ \E podOrder \in RangeOrders(DOMAIN PodMap(objects)) :
         graph' = BuildGraph(objects, podOrder, graphRevision')
    /\ builds' = builds + 1
    /\ firstBuild' = IF builds = 0
                     THEN [nodes |-> NodeKeys(graph'),
                           rels |-> Triples(graph'),
                           lead |-> IF graph'.Nodes = <<>> THEN <<>>
                                    ELSE <<graph'.Nodes[1]>>,
                           leadRel |-> IF graph'.Relationships = <<>> THEN <<>>
                                       ELSE <<graph'.Relationships[1]>>]
                     ELSE firstBuild
    /\ UNCHANGED <<snapshot, objects>>
    /\ UNCHANGED <<mainVars, call, mutations>>

\* the next cycle of main on the unchanged store: the Graph and the slice of
\* the last cycle are garbage
NextCycle ==
    /\ graph # EmptyGraph
    /\ builds < MaxBuilds
    /\ graph' = EmptyGraph
    /\ objects' = <<>>
    /\ UNCHANGED <<snapshot, graphRevision, builds, firstBuild>>
    /\ UNCHANGED <<mainVars, call, mutations>>

\* BuildSpec: BuildGraph called again and again by main on a store that no
\* producer changes, for every content the store can have
BuildInit ==
    /\ MainInit(0)
    /\ snapshot \in Snapshots
    /\ objects = <<>>
    /\ graphRevision = 0
    /\ graph = EmptyGraph
    /\ builds = 0
    /\ firstBuild = NoBuild
    /\ call = NoCall
    /\ mutations = 0

BuildNext ==
    \/ BuildList
    \/ Build
    \/ NextCycle

BuildSpec == BuildInit /\ [][BuildNext]_vars

\* -------------------------------------------------------------- properties
PodKey == GetKey(PodA1)[1]
NodeKey == GetKey(NodeN)[1]
AllIdle == \A p \in Producers : pc[p] = "idle"

\* C1: after any sequence of Upsert and Delete calls on an initially empty
\* store, the keys List() returns, and the keys Get finds, are exactly the keys
\* whose most recent applied operation was an Upsert.
C1_ListIsLastUpserted ==
    /\ ListKeys = {k \in Keys : lastOp[k] = "upsert"}
    /\ \A k \in Keys : Get(k)[2] <=> lastOp[k] = "upsert"

\* three calls that all changed the store: Upsert and Delete of the node
\* (delete after upsert removes it) and an Upsert of the pod
C1_Witness ==
    /\ AllIdle
    /\ opsLeft = MaxOps - 3
    /\ sendsSinceRecv = 3
    /\ lastOp[NodeKey] = "delete"
    /\ lastOp[PodKey] = "upsert"
    /\ ListKeys = {PodKey}

\* C2: the change-signal buffer never holds more than one signal, and any
\* number N >= 1 of signalling calls since the consumer last received leaves
\* exactly one pending signal.
C2_OnePendingSignal ==
    /\ changedCh <= 1
    /\ sendsSinceRecv >= 1 => changedCh = 1

\* a burst of two signalling calls, one signal pending
C2_Witness ==
    /\ sendsSinceRecv >= 2
    /\ changedCh = 1
    /\ AllIdle


\* C3: with no shutdown request, every mutation of the store is eventually
\* followed by a build whose List() took the read lock after the mutation was
\* applied (FairSpec).
C3_MutationEventuallyBuilt == unseen ~> (~unseen \/ shutdownCh)

\* one build has listed both records of two mutations, no shutdown requested
C3_Witness ==
    /\ ~shutdownCh
    /\ opc = "list_iter"
    /\ ~unseen
    /\ currentGraphRevision = 1
    /\ opsLeft = MaxLiveOps - 2
    /\ listedStore = store
    /\ ListKeys = Keys

\* C4: the revisions handed to successive builds, the final build included,
\* are strictly increasing, and the graph being emitted carries the latest one.
C4_RevisionsStrictlyIncrease ==
    /\ \A i, j \in DOMAIN revHist : i < j => revHist[i] < revHist[j]
    /\ graphData # NoGraph =>
         \E i \in DOMAIN revHist : graphData.rev = revHist[i]
    /\ opc = "emit_create" => graphData.rev = revHist[Len(revHist)]

\* main has returned after two builds in the loop and the final build
C4_Witness ==
    /\ opc = "done"
    /\ Len(revHist) = 3
    /\ graphData.rev = 3

EmitPcs == {"emit_create", "emit_write", "emit_write_end", "emit_sync",
            "emit_close", "emit_rename"}

FinalFilesComplete ==
    \A t \in DOMAIN files :
        files[t] # NoFile =>
            files[t].data = "full" /\ files[t].synced /\ ~files[t].open

\* C5: a file under a final name is always complete; the output directory's
\* final files change only by the rename of a fully written, synced and closed
\* temporary file; an EmitGraph that returns an error has added no final file
\* (EmitSpec).
C5_NoPartialFinalFile ==
    /\ []FinalFilesComplete
    /\ [][/\ files' # files =>
               /\ opc = "emit_rename"
               /\ tmp.data = "full" /\ tmp.synced /\ ~tmp.open
               /\ files' = [files EXCEPT ![finalFilename] = tmp]
               /\ emitErr' = "nil"
          /\ (opc \in EmitPcs /\ opc' \notin EmitPcs /\ emitErr' = "error") =>
               files' = files]_vars

\* an earlier emit has left a complete final file while the temporary file of
\* the next emit is partially written
C5_Witness ==
    /\ \E t \in DOMAIN files : files[t] # NoFile
    /\ tmp # NoFile
    /\ tmp.data = "partial"
    /\ opc = "emit_write_end"

\* C6: once shutdown is requested main leaves the loop and returns after
\* exactly one final build and one final emit (FairSpec).
C6_ExactlyOneFinalBuild ==
    /\ shutdownCh ~> (opc = "done")
    /\ [](opc = "done" => finalBuilds = 1 /\ finalEmits = 1)

\* main has returned after its final build although a change signal was
\* pending when the shutdown branch was taken
C6_Witness ==
    /\ opc = "done"
    /\ sigAtExit = 1
    /\ finalBuilds = 1
    /\ finalEmits = 1

\* C7: when main has returned, a snapshot file holds the graph of the final
\* build, built from the store as it was when the final List() ran (EmitSpec).
C7_LastStateFlushed ==
    opc = "done" =>
        /\ graphData.objects = listedStore
        /\ \E t \in DOMAIN files : files[t] = EmittedFile(graphData)

\* C8: writers exclude each other and the reader; while List() holds the read
\* lock the map does not change and what it has copied agrees with the map;
\* whenever no writer is inside its critical section the map equals the result
\* of applying the calls one after the other in the order they took the lock.
C8_CallsAreAtomic ==
    /\ Cardinality(muW) <= 1
    /\ muW # {} => muR = 0
    /\ opc = "list_iter" =>
         /\ store = listedStore
         /\ \A k \in Keys \ iterLeft : list[k] = store[k]
    /\ muW = {} => store = seqStore

\* one producer inside its critical section, the other between unlock and
\* signal, the consumer waiting for the read lock
C8_Witness ==
    /\ pc["p1"] = "u_store"
    /\ pc["p2"] = "d_signal"
    /\ opc = "list_rlock"
    /\ muW = {"p1"}

\* C9: the steps of a Delete whose key has no record leave the map and the
\* change signal as they are and return.
C9_DeleteAbsentIsNoOp ==
    [][\A p \in Producers :
         (/\ pc[p] = "d_check"
          /\ store[GetKey(arg[p])[1]] = NoObj
          /\ pc'[p] # pc[p]) =>
            /\ store' = store
            /\ changedCh' = changedCh
            /\ sendsSinceRecv' = sendsSinceRecv
            /\ pc'[p] = "idle"]_vars

\* the only call so far was a Delete of the absent node: nothing stored, no
\* signal pending
C9_Witness ==
    /\ AllIdle
    /\ opsLeft = MaxOps - 1
    /\ lastOp[NodeKey] = "delete"
    /\ store = EmptyStore
    /\ changedCh = 0
    /\ sendsSinceRecv = 0
    /\ currentGraphRevision = 0

\* C10: when an Upsert with a resolvable kind or a Delete of a present key has
\* returned, a signal is pending unless the consumer has received one after
\* the mutation was applied.
C10_MutationNotifies ==
    \A p \in Producers :
        (pc[p] = "idle" /\ owed[p] # None) => changedCh >= 1

\* an Upsert that stored the record the map already held has returned and a
\* signal is pending
C10_Witness ==
    /\ pc["p1"] = "idle"
    /\ owed["p1"] = "same"
    /\ changedCh = 1

\* C11: a call that has taken the lock returns whether or not main ever
\* receives from the channel, and a send that finds a signal pending leaves the
\* channel as it is and returns (ProducerFairSpec).
C11_SignalNeverBlocks ==
    /\ \A p \in Producers :
          (pc[p] # "idle") ~> (pc[p] = "idle" \/ opc = "done")
    /\ [][\A p \in Producers :
            (/\ pc[p] \in {"u_signal", "d_signal"}
             /\ changedCh = ChanCap
             /\ pc'[p] # pc[p]) =>
               /\ changedCh' = changedCh
               /\ pc'[p] = "idle"]_vars

\* two mutating calls have returned while main never left its first select:
\* the second found the signal of the first still pending
C11_Witness ==
    /\ AllIdle
    /\ opc = "select"
    /\ currentGraphRevision = 0
    /\ opsLeft = MaxLiveOps - 2
    /\ ListKeys = Keys
    /\ changedCh = ChanCap
    /\ ~shutdownCh

\* C12: the objects a build works on are the content of the map at the
\* moment its List() took the read lock; inside the loop main gets there only
\* after it has received a signal and its drain has found the channel empty;
\* and a signal is sent only by a call that has applied its mutation and
\* released the lock, in a step that leaves the map alone.  So the snapshot
\* holds every mutation whose signal main received before the build.
C12_SnapshotHoldsSignalledMutations ==
    /\ [](opc = "emit_create" => graphData.objects = listedStore)
    /\ [][/\ (opc' = "list_rlock" /\ opc # "list_rlock") => opc = "rev"
          /\ (opc' = "rev" /\ opc # "rev" /\ phase' = "loop") =>
                (opc = "drain" /\ changedCh = 0)
          /\ (opc' = "drain" /\ opc # "drain") =>
                (opc = "select" /\ changedCh' = changedCh - 1)
          /\ changedCh' > changedCh =>
                /\ \E p \in Producers :
                      /\ pc[p] \in {"u_signal", "d_signal"}
                      /\ pc'[p] = "idle"
                      /\ p \notin muW
                /\ store' = store]_vars

\* the first build: the signal of the pod's Upsert was received before it,
\* the Upsert of the node has stored but not yet signalled, and the snapshot
\* holds both
C12_Witness ==
    /\ opc = "emit_create"
    /\ phase = "loop"
    /\ graphData.rev = 1
    /\ graphData.objects[PodKey] = PodA2
    /\ graphData.objects[NodeKey] = NodeN
    /\ pc["p1"] = "idle"
    /\ owed["p1"] = None
    /\ pc["p2"] = "u_signal"
    /\ owed["p2"] = "insert"
    /\ changedCh = 0

C14_NoTempFileAfterReturn ==
    opc \notin EmitPcs => tmp = NoFile

\* C15: an EmitGraph that fails inside the loop sends main back to its select
\* with the map, the pending signal and the revision counter as they were; a
\* signal pending then is followed by a build, and the build after a failed
\* emit carries the failed revision plus one (FairSpec).
C15_EmitFailureIsNotFatal ==
    /\ [][(opc = "emit_create" /\ phase = "loop" /\ emitErr' = "error"
            /\ opc' # opc) =>
               /\ opc' = "select"
               /\ store' = store
               /\ changedCh' = changedCh
               /\ currentGraphRevision' = currentGraphRevision
               /\ files' = files]_vars
    /\ [](emitErr = "error" /\ opc \in {"list_rlock", "list_iter"} =>
            currentGraphRevision = graphData.rev + 1)
    /\ (emitErr = "error" /\ opc = "select" /\ changedCh > 0)
          ~> (opc = "list_iter")

\* the emit of revision 1 failed and left no file; main is in the loop,
\* building revision 2 from the next change signal
C15_Witness ==
    /\ emitErr = "error"
    /\ phase = "loop"
    /\ ~shutdownCh
    /\ opc = "list_iter"
    /\ graphData.rev = 1
    /\ currentGraphRevision = 2
    /\ \A t \in DOMAIN files : files[t] = NoFile

Built == graph # EmptyGraph
TestSnapshot == {Entry(o) : o \in TestObjects}
Key(kind, ns, name) == [Name |-> name, Namespace |-> ns, Kind |-> kind]
Edge(source, type, target) ==
    [Source |-> source, Target |-> target, RelationshipType |-> type]

\* C16: on the six objects of TestBuildGraph_Relationships BuildGraph returns
\* 6 nodes, one per object, and 5 relationships: the pod OWNED_BY the replica
\* set, the replica set OWNED_BY the deployment, the pod SCHEDULED_ON the
\* node, the pod MOUNTS the config map, the service SELECTS the pod, each
\* once and no other (BuildSpec).
C16_TestGraph ==
    (Built /\ snapshot = TestSnapshot) =>
        /\ Len(graph.Nodes) = 6
        /\ NodeKeys(graph) =
              {Key("Deployment", "graph-test", "test-deploy"),
               Key("ReplicaSet", "graph-test", "test-rs"),
               Key("Pod", "graph-test", "test-pod"),
               Key("Node", "", "test-node"),
               Key("Service", "graph-test", "test-svc"),
               Key("ConfigMap", "graph-test", "test-cm")}
        /\ Len(graph.Relationships) = 5
        /\ Triples(graph) =
              {Edge(Key("Pod", "graph-test", "test-pod"), "OWNED_BY",
                    Key("ReplicaSet", "graph-test", "test-rs")),
               Edge(Key("ReplicaSet", "graph-test", "test-rs"), "OWNED_BY",
                    Key("Deployment", "graph-test", "test-deploy")),
               Edge(Key("Pod", "graph-test", "test-pod"), "SCHEDULED_ON",
                    Key("Node", "", "test-node")),
               Edge(Key("Pod", "graph-test", "test-pod"), "MOUNTS",
                    Key("ConfigMap", "graph-test", "test-cm")),
               Edge(Key("Service", "graph-test", "test-svc"), "SELECTS",
                    Key("Pod", "graph-test", "test-pod"))}

\* the graph of the six objects, built from a slice that starts with the
\* service and ends with the pod
C16_Witness ==
    /\ Built
    /\ snapshot = TestSnapshot
    /\ objects[1] = TestSvc
    /\ objects[6] = TestPod
    /\ Len(graph.Relationships) = 5

\* C17: a second BuildGraph on the unchanged store returns the node keys and
\* the (source, target, type) triples of the first, whatever the order in which
\* the two calls ranged over the store and over podMap (BuildSpec).
C17_BuildIsDeterministic ==
    (Built /\ builds >= 2) =>
        /\ NodeKeys(graph) = firstBuild.nodes
        /\ Triples(graph) = firstBuild.rels

\* the second build of a service and the two pods it selects, whose slices
\* start with another node and another relationship than those of the first
C17_Witness ==
    /\ Built
    /\ builds = 2
    /\ snapshot = {Entry(TestSvc), Entry(TestPod), Entry(TestPod2)}
    /\ firstBuild.lead # <<>>
    /\ firstBuild.lead[1].Key # graph.Nodes[1].Key
    /\ firstBuild.leadRel # <<>>
    /\ Triple(firstBuild.leadRel[1]) # Triple(graph.Relationships[1])
    /\ firstBuild.leadRel[1].RelationshipType = "SELECTS"
    /\ graph.Relationships[1].RelationshipType = "SELECTS"

\* C18: BuildGraph returns as many nodes as the store has entries, their keys
\* are the keys of the entries field by field, and no two nodes share a key
\* (BuildSpec).
C18_OneNodePerEntity ==
    Built =>
        /\ Len(graph.Nodes) = Cardinality(snapshot)
        /\ NodeKeys(graph) =
              {[Name |-> e.key.name, Namespace |-> e.key.ns,
                Kind |-> e.key.kind] : e \in snapshot}
        /\ \A i, j \in DOMAIN graph.Nodes :
              i # j => graph.Nodes[i].Key # graph.Nodes[j].Key

\* three nodes for two pods of the same name in two namespaces and an object
\* of a type without ObjectMeta access
C18_Witness ==
    /\ Built
    /\ snapshot = {Entry(TestPod), Entry(OtherPod), Entry(TestEvent)}
    /\ Len(graph.Nodes) = 3
    /\ Key("Event", "", "") \in NodeKeys(graph)

\* C19: the Graph, each of its nodes and each of its relationships carry the
\* revision BuildGraph was called with (BuildSpec).
C19_OneRevision ==
    Built =>
        /\ graph.GraphRevision = graphRevision
        /\ \A i \in DOMAIN graph.Nodes :
              graph.Nodes[i].Revision = graphRevision
        /\ \A i \in DOMAIN graph.Relationships :
              graph.Relationships[i].Revision = graphRevision

\* the second build, revision 2, of a store whose objects originate
\* relationships of all four types
C19_Witness ==
    /\ Built
    /\ graphRevision = 2
    /\ graph.GraphRevision = 2
    /\ Len(graph.Nodes) = 6
    /\ {graph.Relationships[i].RelationshipType :
            i \in DOMAIN graph.Relationships} =
          {"OWNED_BY", "SCHEDULED_ON", "MOUNTS", "SELECTS"}

\* C20: a Service whose selector is nil or empty is the source of no SELECTS
\* relationship (BuildSpec).
C20_EmptySelectorSelectsNothing ==
    Built =>
        \A e \in snapshot :
            (/\ e.obj.type = "Service"
             /\ (e.obj.selector.isNil \/ e.obj.selector.pairs = {})) =>
                \A i \in DOMAIN graph.Relationships :
                    ~(/\ graph.Relationships[i].RelationshipType = "SELECTS"
                      /\ graph.Relationships[i].Source.Name = e.obj.name
                      /\ graph.Relationships[i].Source.Namespace = e.obj.ns
                      /\ graph.Relationships[i].Source.Kind = "Service")

\* a service with an empty selector and one with none, next to a labelled pod
\* of their namespace: the graph has no SELECTS relationship
C20_Witness ==
    /\ Built
    /\ snapshot = {Entry(EmptySvc), Entry(NilSvc), Entry(TestPod)}
    /\ Len(graph.Nodes) = 3
    /\ \A i \in DOMAIN graph.Relationships :
          graph.Relationships[i].RelationshipType # "SELECTS"
    /\ Len(graph.Relationships) = 3

\* the number of relationships of graph g from source to target of one type
Count(g, source, type, target) ==
    Cardinality({i \in DOMAIN g.Relationships :
                    Triple(g.Relationships[i]) = Edge(source, type, target)})
\* the pods and the services of the snapshot
SnapshotObjects(type) == {e.obj : e \in {x \in snapshot : x.obj.type = type}}

\* C21: for every Service of the snapshot with a non-empty selector and every
\* Pod of the snapshot in its namespace, the graph has exactly one SELECTS
\* relationship from the service to the pod if every pair of the selector is
\* a label of the pod, and none otherwise (BuildSpec).
C21_SelectsIsConjunction ==
    Built =>
        \A s \in SnapshotObjects("Service"), p \in SnapshotObjects("Pod") :
            (s.selector.pairs # {} /\ p.ns = s.ns) =>
                Count(graph, Key("Service", s.ns, s.name), "SELECTS",
                      Key("Pod", p.ns, p.name)) =
                    IF s.selector.pairs \subseteq p.labels.pairs THEN 1 ELSE 0

\* a service with the selector app=test,tier=web next to a pod that carries
\* both labels and a pod that carries the first only: one SELECTS
C21_Witness ==
    /\ Built
    /\ snapshot = {Entry(WebSvc), Entry(TestPod), Entry(TestPod2)}
    /\ Count(graph, Key("Service", "graph-test", "web-svc"), "SELECTS",
             Key("Pod", "graph-test", "test-pod-2")) = 1
    /\ Count(graph, Key("Service", "graph-test", "web-svc"), "SELECTS",
             Key("Pod", "graph-test", "test-pod")) = 0

\* C22: no SELECTS relationship has its Service source and its Pod target in
\* different namespaces, whatever the labels of the pods of other namespaces
\* (BuildSpec).
C22_SelectsWithinNamespace ==
    Built =>
        \A i \in DOMAIN graph.Relationships :
            graph.Relationships[i].RelationshipType = "SELECTS" =>
                graph.Relationships[i].Source.Namespace =
                    graph.Relationships[i].Target.Namespace

\* the test service next to two pods labelled app=test, one in its namespace
\* and one in another: it selects the first only
C22_Witness ==
    /\ Built
    /\ snapshot = {Entry(TestSvc), Entry(TestPod), Entry(OtherPod)}
    /\ Count(graph, Key("Service", "graph-test", "test-svc"), "SELECTS",
             Key("Pod", "graph-test", "test-pod")) = 1
    /\ Count(graph, Key("Service", "graph-test", "test-svc"), "SELECTS",
             Key("Pod", "other", "test-pod")) = 0

\* C23: the relationship list of a graph contains no two relationships with
\* the same (source, target, type), also for objects that carry several owner
\* references or several volumes naming one target (BuildSpec).
C23_NoDuplicateRelationships ==
    Built =>
        \A i, j \in DOMAIN graph.Relationships :
            i # j => Triple(graph.Relationships[i]) #
                     Triple(graph.Relationships[j])

\* C24: the source key and the target key of every relationship of a graph
\* are keys of entries of the store the graph was built from (BuildSpec).
C24_EndpointsInSnapshot ==
    Built =>
        \A i \in DOMAIN graph.Relationships :
            /\ \E e \in snapshot :
                  graph.Relationships[i].Source =
                      Key(e.key.kind, e.key.ns, e.key.name)
            /\ \E e \in snapshot :
                  graph.Relationships[i].Target =
                      Key(e.key.kind, e.key.ns, e.key.name)

\* the owner references of object o that equal ref, and the OWNED_BY
\* relationships of graph g that start at source
NumRefs(o, ref) == Cardinality({i \in DOMAIN o.owners : o.owners[i] = ref})
OwnedBy(g, source) ==
    {i \in DOMAIN g.Relationships :
        /\ g.Relationships[i].RelationshipType = "OWNED_BY"
        /\ g.Relationships[i].Source = source}
\* the OWNED_BY relationships object o originates when the owner references
\* of the kinds in kinds are followed: one per such reference, to the owner
\* kind and name in the namespace of o, and no other
FollowsOwners(g, e, kinds) ==
    LET source == Key(e.key.kind, e.key.ns, e.key.name)
        o == e.obj
    IN  /\ \A i \in DOMAIN o.owners :
              Count(g, source, "OWNED_BY",
                    Key(o.owners[i].Kind, o.ns, o.owners[i].Name)) =
                  IF o.owners[i].Kind \in kinds
                  THEN NumRefs(o, o.owners[i]) ELSE 0
        /\ Cardinality(OwnedBy(g, source)) =
              Cardinality({i \in DOMAIN o.owners : o.owners[i].Kind \in kinds})

\* C25 as stated: for every entry of the store, whatever its type, every
\* owner reference of kind ReplicaSet or Deployment gives one OWNED_BY
\* relationship to (owner kind, the entry's namespace, owner name), and the
\* owner references of other kinds give none (BuildSpec).
C25_EveryEntityOwnedBy ==
    Built =>
        \A e \in snapshot :
            FollowsOwners(graph, e, {"ReplicaSet", "Deployment"})

\* C25 amended: the owner references of kind ReplicaSet or Deployment of a
\* Pod and those of kind Deployment of a ReplicaSet give one OWNED_BY
\* relationship each; the other owner references of a Pod or a ReplicaSet and
\* all owner references of objects of other types give none (BuildSpec).
C25_PodsAndReplicaSetsOwnedBy ==
    Built =>
        \A e \in snapshot :
            FollowsOwners(graph, e,
                CASE e.obj.type = "Pod" -> {"ReplicaSet", "Deployment"}
                  [] e.obj.type = "ReplicaSet" -> {"Deployment"}
                  [] OTHER -> {})

\* a replica set owned by a replica set and a deployment, a config map owned
\* by a deployment, a pod owned by a deployment: two OWNED_BY relationships,
\* none from the config map and none to the replica set
C25_Witness ==
    /\ Built
    /\ snapshot = {Entry(NestedRS), Entry(OwnedCM), Entry(OtherPod)}
    /\ Count(graph, Key("ReplicaSet", "graph-test", "nested-rs"), "OWNED_BY",
             Key("Deployment", "graph-test", "test-deploy")) = 1
    /\ Count(graph, Key("Pod", "other", "test-pod"), "OWNED_BY",
             Key("Deployment", "other", "test-deploy")) = 1
    /\ OwnedBy(graph, Key("ConfigMap", "graph-test", "owned-cm")) = {}
    /\ Len(graph.Relationships) = 2

\* the relationships of graph g of one type that start at source
From(g, source, type) ==
    {i \in DOMAIN g.Relationships :
        /\ g.Relationships[i].RelationshipType = type
        /\ g.Relationships[i].Source = source}

\* C26: a Pod of the snapshot with a non-empty node name is the source of
\* exactly one SCHEDULED_ON relationship, to the key (Node, no namespace, the
\* node name), whether the snapshot holds that Node or not; a Pod with an
\* empty node name is the source of none (BuildSpec).
C26_ScheduledOnNodeName ==
    Built =>
        \A p \in SnapshotObjects("Pod") :
            LET source == Key("Pod", p.ns, p.name)
            IN  IF p.nodeName # ""
                THEN /\ Cardinality(From(graph, source, "SCHEDULED_ON")) = 1
                     /\ Count(graph, source, "SCHEDULED_ON",
                              Key("Node", "", p.nodeName)) = 1
                ELSE From(graph, source, "SCHEDULED_ON") = {}

\* a pod scheduled on a node the snapshot does not hold, a pod that is not
\* scheduled, and another node
C26_Witness ==
    /\ Built
    /\ snapshot = {Entry(BusyPod), Entry(TestPod2), Entry(TestNode)}
    /\ Count(graph, Key("Pod", "graph-test", "busy-pod"), "SCHEDULED_ON",
             Key("Node", "", "gone-node")) = 1
    /\ From(graph, Key("Pod", "graph-test", "test-pod-2"), "SCHEDULED_ON") = {}
    /\ Key("Node", "", "gone-node") \notin NodeKeys(graph)

\* the volumes of pod p that reference a config map
ConfigMapVolumes(p) == {i \in DOMAIN p.volumes : p.volumes[i].ConfigMap # None}

\* C27: a Pod of the snapshot is the source of one MOUNTS relationship per
\* volume that references a ConfigMap, with the target (ConfigMap, the pod's
\* namespace, the referenced name); its other volumes give none, and no
\* MOUNTS relationship leaves the namespace of its source (BuildSpec).
C27_MountsPerConfigMapVolume ==
    Built =>
        /\ \A p \in SnapshotObjects("Pod") :
              LET source == Key("Pod", p.ns, p.name)
              IN  /\ \A i \in ConfigMapVolumes(p) :
                        Count(graph, source, "MOUNTS",
                              Key("ConfigMap", p.ns, p.volumes[i].ConfigMap)) =
                            Cardinality({j \in ConfigMapVolumes(p) :
                                            p.volumes[j] = p.volumes[i]})
                  /\ Cardinality(From(graph, source, "MOUNTS")) =
                        Cardinality(ConfigMapVolumes(p))
        /\ \A i \in DOMAIN graph.Relationships :
              graph.Relationships[i].RelationshipType = "MOUNTS" =>
                  /\ graph.Relationships[i].Target.Kind = "ConfigMap"
                  /\ graph.Relationships[i].Target.Namespace =
                        graph.Relationships[i].Source.Namespace

\* a pod with two config map volumes around a volume of another source, a
\* pod with a volume of another source only, the test pod with one config
\* map volume
C27_Witness ==
    /\ Built
    /\ snapshot = {Entry(BusyPod), Entry(TestPod2), Entry(TestPod)}
    /\ Cardinality(From(graph, Key("Pod", "graph-test", "busy-pod"),
                        "MOUNTS")) = 2
    /\ From(graph, Key("Pod", "graph-test", "test-pod-2"), "MOUNTS") = {}
    /\ Count(graph, Key("Pod", "graph-test", "test-pod"), "MOUNTS",
             Key("ConfigMap", "graph-test", "test-cm")) = 1

\* the step in which a producer calls Upsert or Delete
CallStep(op) == opsLeft' < opsLeft /\ call'.op = op
\* a call that returns at once and leaves the cache as it found it: the map,
\* the lock, the channel, and nothing owed to the consumer
Dropped ==
    /\ store' = store
    /\ muW' = muW
    /\ muR' = muR
    /\ changedCh' = changedCh
    /\ sendsSinceRecv' = sendsSinceRecv
    /\ owed' = owed
    /\ pc' = pc
    /\ opc' = opc

\* C28: an Upsert of an object without a kind in its TypeMeta and of a type
\* getKindFromType does not know returns at once: the map is unchanged, no
\* signal is sent, the caller and main go on (CallSpec).
C28_UnresolvedUpsertDropped ==
    [][(/\ CallStep("Upsert")
        /\ call'.payload.obj.gvk = ""
        /\ call'.payload.obj.type \notin KnownTypes) => Dropped]_vars

\* the only call so far was the Upsert of the object of unknown kind: the
\* map is empty, no signal is pending, no build was made
C28_Witness ==
    /\ call = [op |-> "Upsert", payload |-> [tomb |-> FALSE, obj |-> Unknown]]
    /\ opsLeft = MaxCalls - 1
    /\ AllIdle
    /\ store = EmptyStore
    /\ changedCh = 0
    /\ sendsSinceRecv = 0
    /\ opc = "select"
    /\ currentGraphRevision = 0

\* a Delete payload without an entity with a key in it: what is passed, or
\* what the tombstone wraps, is no runtime.Object, or is one without a kind
\* in its TypeMeta and of a type getKindFromType does not know
Malformed(payload) ==
    IF payload.obj = NotAnObject THEN TRUE
    ELSE payload.obj.gvk = "" /\ payload.obj.type \notin KnownTypes

\* C29: a Delete whose payload is neither an entity nor a tombstone wrapping
\* one, or whose key cannot be resolved, returns at once: the map and the
\* pending signal are unchanged, the caller and main go on (CallSpec).
C29_MalformedDeleteIgnored ==
    [][(CallStep("Delete") /\ Malformed(call'.payload)) => Dropped]_vars

\* after an Upsert of the pod has returned, a Delete of a tombstone that
\* wraps no runtime.Object: the record is there, the signal of the Upsert
\* still pending, no second send was made
C29_Witness ==
    /\ call = [op |-> "Delete", payload |-> [tomb |-> TRUE, obj |-> NotAnObject]]
    /\ opsLeft = MaxCalls - 2
    /\ AllIdle
    /\ store[PodKey] = PodA1
    /\ store[NodeKey] = NoObj
    /\ changedCh = 1
    /\ sendsSinceRecv = 1
    /\ opc = "select"

\* C30: from every state, for every object e, the call Delete(tombstone
\* wrapping e) takes exactly the steps the call Delete(e) takes: it is dropped
\* when Delete(e) is dropped, and otherwise takes the lock with the key of e
\* to resolve, after which the calls do not differ (CallSpec).
C30_TombstoneDeletesAsLive ==
    [][\A p \in Producers, e \in Objects \cup {NotAnObject} :
          DeleteCall(p, [tomb |-> TRUE, obj |-> e]) <=>
              DeleteCall(p, [tomb |-> FALSE, obj |-> e])]_vars

\* an Upsert of the pod and then a Delete of the tombstone wrapping it have
\* returned: the record is gone and both calls have sent a signal
C30_Witness ==
    /\ call = [op |-> "Delete", payload |-> [tomb |-> TRUE, obj |-> PodA1]]
    /\ opsLeft = MaxCalls - 2
    /\ AllIdle
    /\ store = EmptyStore
    /\ lastOp[PodKey] = "delete"
    /\ changedCh = 1
    /\ sendsSinceRecv = 2

\* C31: the slice List() returned is a copy: a step that changes the map
\* changes neither the slice nor the graph made from it, and from the return
\* of List() to the call of EmitGraph the slice holds the records the map held
\* when List() took the read lock (CallSpec).
C31_ListReturnsCopy ==
    /\ [][store' # store => (list' = list /\ graphData' = graphData)]_vars
    /\ [](opc = "emit_create" => (list = listedStore /\ iterLeft = {}))

\* List() has returned the pod; a Delete has since removed it from the map
C31_Witness ==
    /\ opc = "emit_create"
    /\ list[PodKey] = PodA1
    /\ graphData.objects[PodKey] = PodA1
    /\ store[PodKey] = NoObj
    /\ lastOp[PodKey] = "delete"
    /\ AllIdle

\* the positions of main inside one build + emit cycle, and the moves main
\* makes from one position to the next
InCycle == {"drain", "rev", "list_rlock", "list_iter", "emit_create"}
CycleMoves ==
    {<<"select", "drain">>, <<"drain", "rev">>, <<"rev", "list_rlock">>,
     <<"list_rlock", "list_iter">>, <<"list_iter", "emit_create">>,
     <<"emit_create", "select">>}

\* C32: main runs one cycle at a time: inside the loop it moves from the
\* select through drain, revision, List() and EmitGraph back to the select and
\* in no other way; it looks at the shutdown channel at the select only, so a
\* shutdown requested during a cycle leaves the cycle to run to its end; a
\* revision is taken only when the build of the previous one has been handed
\* to EmitGraph and EmitGraph has returned (CallSpec).
C32_OneCycleAtATime ==
    /\ [][(opc' # opc /\ phase' = "loop") => <<opc, opc'>> \in CycleMoves]_vars
    /\ [][phase' # phase => (opc = "select" /\ shutdownCh)]_vars
    /\ [][shutdownCh' # shutdownCh => (opc' = opc /\ phase' = phase)]_vars
    /\ [](opc = "rev" => graphData.rev = currentGraphRevision)

\* shutdown has been requested and main, still in the loop, has built the
\* graph of revision 1 from the listed pod and is about to call EmitGraph
C32_Witness ==
    /\ shutdownCh
    /\ phase = "loop"
    /\ opc = "emit_create"
    /\ currentGraphRevision = 1
    /\ graphData.rev = 1
    /\ graphData.objects[PodKey] = PodA1
    /\ finalBuilds = 0

\* C33: at the select main does nothing while no signal is pending and no
\* shutdown is requested; it enters a cycle only by receiving a signal, and
\* inside the loop it takes a revision only at the step of a cycle that
\* follows the drain (CallSpec).
C33_BuildsOnSignalOnly ==
    /\ []((opc = "select" /\ changedCh = 0 /\ ~shutdownCh) =>
             ~ENABLED Orchestrator)
    /\ [][(opc = "select" /\ opc' # "select" /\ phase' = "loop") =>
             (changedCh > 0 /\ changedCh' = changedCh - 1)]_vars
    /\ [][(Len(revHist') > Len(revHist) /\ phase = "loop") =>
             (opc = "rev" /\ opc' = "list_rlock")]_vars

\* every producer call has been made and has returned, main has built and
\* emitted once and waits at the select: nothing is pending, nothing happens
C33_Witness ==
    /\ opc = "select"
    /\ phase = "loop"
    /\ ~shutdownCh
    /\ changedCh = 0
    /\ AllIdle
    /\ opsLeft = 0
    /\ Len(revHist) = 1
    /\ ~ENABLED Orchestrator

\* C34: every record of the map lies under the key GetKey derives from it:
\* its kind (the kind of its TypeMeta, or else the one its Go type stands
\* for), which is never empty, and the namespace and name of its ObjectMeta;
\* so no two entries have the same identity (CallSpec).
C34_RecordsUnderOwnKey ==
    \A k \in DOMAIN store :
        store[k] # NoObj =>
            /\ GetKey(store[k]) = <<k, TRUE>>
            /\ k.kind # ""
            /\ k.kind = IF store[k].gvk # "" THEN store[k].gvk
                        ELSE store[k].type
            /\ \A j \in DOMAIN store :
                  (store[j] # NoObj /\ GetKey(store[j]) = GetKey(store[k]))
                      => j = k

\* the map holds the pod whose TypeMeta names its kind and the node, whose
\* kind comes from its Go type
C34_Witness ==
    /\ store[PodKey] = PodA2
    /\ store[NodeKey] = NodeN
    /\ AllIdle
    /\ opsLeft = 0

\* C35: the k-th build of the process, the final one included, has revision
\* k, whether the emits before it succeeded or failed; the revisions of the
\* files in the output directory increase with their names and need not be
\* consecutive (EmitSpec).
C35_EveryBuildTakesARevision ==
    /\ \A k \in DOMAIN revHist : revHist[k] = k
    /\ currentGraphRevision = Len(revHist)
    /\ opc \in EmitPcs => graphData.rev = Len(revHist)
    /\ \A t1, t2 \in DOMAIN files :
          (t1 < t2 /\ files[t1] # NoFile /\ files[t2] # NoFile) =>
              files[t1].graph.rev < files[t2].graph.rev

\* three builds, the final one among them; the emit of the second failed:
\* the directory holds revision 1 and revision 3
C35_Witness ==
    /\ opc = "done"
    /\ revHist = <<1, 2, 3>>
    /\ files[0] # NoFile
    /\ files[0].graph.rev = 1
    /\ files[1] # NoFile
    /\ files[1].graph.rev = 3

InLoopBuilds ==
    Len(revHist) - (IF phase = "final" /\ opc # "rev" THEN 1 ELSE 0)
                 + (IF opc = "drain" THEN 1 ELSE 0)

\* the producers that have changed the map and not yet called signalChange
AboutToSignal == {p \in Producers : pc[p] \in {"u_signal", "d_signal"}}

\* C37: the builds begun in the loop never outnumber the Upserts and Deletes
\* that have changed the map; counting also the signal in the channel and
\* the producers about to send one: every cycle has received a signal, and
\* every signal was sent after a mutation of its own (CallSpec).
C37_BuildsBoundedByMutations ==
    /\ InLoopBuilds <= mutations
    /\ InLoopBuilds + changedCh + Cardinality(AboutToSignal) <= mutations

\* two mutations, both signalled, and one build: the second signal was
\* dropped on the full channel or drained
C37_Witness ==
    /\ mutations = 2
    /\ InLoopBuilds = 1
    /\ opc = "select"
    /\ phase = "loop"
    /\ changedCh = 0
    /\ AllIdle
    /\ opsLeft = 0

\* the producers between Lock() and Unlock()
InCriticalSection == {p \in Producers : pc[p] \in {"u_store", "d_check"}}

\* C38: the write lock is held by exactly the producers between Lock() and
\* Unlock(), never by one that has returned or is about to signal; the read
\* lock is held only while List() copies the map; and whoever holds the lock
\* can take the step that releases it, so nobody waits for the lock for ever
\* (CallSpec).
C38_LockReleasedOnEveryPath ==
    /\ muW = InCriticalSection
    /\ muR = (IF opc = "list_iter" THEN 1 ELSE 0)
    /\ \A p \in Producers :
          (p \in muW /\ Running) => ENABLED (UpsertStore(p) \/ DeleteApply(p))
    /\ muR > 0 => ENABLED (ListIter \/ ListReturn)
    /\ (Running /\ muW = {} /\ muR = 0 /\ opsLeft > 0) =>
          \A p \in Producers :
              pc[p] = "idle" =>
                  ENABLED (\E obj \in Objects : UpsertCall(p, obj))

\* a Delete of an absent key has returned and another producer has taken the
\* lock after it
C38_Witness ==
    /\ pc["p1"] = "idle"
    /\ lastOp[PodKey] = "delete"
    /\ \A k \in Keys \ {PodKey} : lastOp[k] = None
    /\ store = EmptyStore
    /\ opsLeft = MaxCalls - 2
    /\ pc["p2"] = "u_store"
    /\ muW = {"p2"}

\* C39: every relationship of a graph starts at a node of the same graph,
\* and every SELECTS relationship ends at a node of the graph that is a Pod
\* of the store (BuildSpec).
C39_SourcesAndSelectedPodsAreNodes ==
    Built =>
        \A i \in DOMAIN graph.Relationships :
            LET r == graph.Relationships[i]
            IN  /\ r.Source \in NodeKeys(graph)
                /\ r.RelationshipType = "SELECTS" =>
                      /\ r.Target \in NodeKeys(graph)
                      /\ r.Target.Kind = "Pod"
                      /\ \E e \in snapshot :
                            /\ e.obj.type = "Pod"
                            /\ r.Target = GraphEntityKey(e.key)

\* a graph with a SELECTS relationship, and with a relationship of another
\* type whose target is no node of the graph
C39_Witness ==
    /\ Built
    /\ \E i \in DOMAIN graph.Relationships :
          /\ graph.Relationships[i].RelationshipType = "SELECTS"
          /\ graph.Relationships[i].Target \in NodeKeys(graph)
    /\ \E i \in DOMAIN graph.Relationships :
          /\ graph.Relationships[i].RelationshipType # "SELECTS"
          /\ graph.Relationships[i].Source \in NodeKeys(graph)
          /\ graph.Relationships[i].Target \notin NodeKeys(graph)

====
